---- MODULE Spec2Model ----
(***************************************************************************)
(* Position indexing and pattern query engine of personal-chessdb.         *)
(*                                                                         *)
(*   - the position codec and the pattern compiler of src/positionIndex.js *)
(*     (strings are sequences of one-character strings);                   *)
(*   - the SQLite store of server.js (games, positions, piece_locations)   *)
(*     with the HTTP handlers that change it and the pattern search;       *)
(*   - the Go batch importer (chdb/internal/database BatchImporter).       *)
(***************************************************************************)
EXTENDS Naturals, Integers, Sequences, FiniteSets, Bags, TLC

(***************************************************************************)
(* Bounds of the model.                                                    *)
(***************************************************************************)
MaxGames == 2
MaxPositions == 4
MaxLimit == 2
NumSeeds == 2
NumGames == 2
MaxCount == 10

(***************************************************************************)
(* SQL NULL; also what an unbound statement parameter is stored as.        *)
(***************************************************************************)
NULL == 0

(***************************************************************************)
(* Strings.                                                                *)
(***************************************************************************)
Range(s) == { s[i] : i \in DOMAIN s }

DigitChars == << "1", "2", "3", "4", "5", "6", "7", "8" >>

\* char >= '1' && char <= '8'
IsDigit(c) == c \in Range(DigitChars)

\* parseInt(char) for a char that passed IsDigit
parseInt(c) == CHOOSE n \in 1..8 : DigitChars[n] = c

\* the decimal digit of n in 0..9
DigitOrZero(n) == IF n = 0 THEN "0" ELSE IF n = 9 THEN "9" ELSE DigitChars[n]

\* String.prototype.indexOf(ch, from), 1-based; 0 stands for -1
RECURSIVE indexOf(_, _, _)
indexOf(s, ch, from) ==
    IF from > Len(s) THEN 0
    ELSE IF s[from] = ch THEN from
    ELSE indexOf(s, ch, from + 1)

\* String.prototype.split(sep) for a one-character separator: the pieces
\* between consecutive occurrences of sep
split(s, sep) ==
    LET seps == { i \in 1..Len(s) : s[i] = sep }
        n == Cardinality(seps)
        pos(k) == CHOOSE i \in seps : Cardinality({ j \in seps : j < i }) = k - 1
        first(k) == IF k = 1 THEN 1 ELSE pos(k - 1) + 1
        last(k) == IF k = n + 1 THEN Len(s) ELSE pos(k) - 1
    IN  [ k \in 1..(n + 1) |-> SubSeq(s, first(k), last(k)) ]

\* Array.prototype.join(sep)
RECURSIVE join(_, _)
join(parts, sep) ==
    IF Len(parts) = 0 THEN << >>
    ELSE IF Len(parts) = 1 THEN parts[1]
    ELSE parts[1] \o << sep >> \o join(Tail(parts), sep)

\* the board field of a FEN: fen.split(' ')[0]
BoardOf(fen) == split(fen, " ")[1]

(***************************************************************************)
(* Position codec (src/positionIndex.js).                                  *)
(***************************************************************************)
ZobristPieces == << "p", "n", "b", "r", "q", "k", "P", "N", "B", "R", "Q", "K" >>

CastlingRights == << "K", "Q", "k", "q" >>

\* keys are drawn below 2^KeyBits, so ^ never reaches the sign bit
KeyBits == 8

\* bit k of n
Bit(n, k) == (n \div (2 ^ k)) % 2

\* the bitwise ^ of the values vals[i], i in DOMAIN vals, with hash: every
\* bit is the parity of the number of operands that have it set
RECURSIVE XorBits(_, _, _)
XorBits(hash, vals, k) ==
    IF k = KeyBits THEN 0
    ELSE ((Bit(hash, k) + Cardinality({ i \in DOMAIN vals : Bit(vals[i], k) = 1 })) % 2)
             * (2 ^ k)
           + XorBits(hash, vals, k + 1)

XorAll(hash, vals) == XorBits(hash, vals, 0)

PieceIndex(c) == CHOOSE n \in 1..12 : ZobristPieces[n] = c

\* The n-th value Math.floor(Math.random() * Number.MAX_SAFE_INTEGER) of
\* the process whose random stream is `seed`: keys are drawn afresh by every
\* process, so which table a process gets is a choice of the stream.
RandomDraw(seed, n) == ((seed * 37 + 11) * (n + 3)) % 251

\* generateZobristKeys(): 64 * 12 piece keys, then blackToMove, then the
\* four castling keys, in the order the draws are made.
generateZobristKeys(seed) ==
    [ square |-> [ sq \in 0..63 |->
                     [ n \in 1..12 |-> RandomDraw(seed, sq * 12 + n) ] ],
      blackToMove |-> RandomDraw(seed, 769),
      castling |-> [ n \in 1..4 |-> RandomDraw(seed, 769 + n) ] ]

\* The loop of computeZobristHash runs over the board with '/' skipped,
\* that is rank by rank with `square` carried from one rank to the next.
\* The squares one rank advances `square` by:
RECURSIVE RankWidth(_, _)
RankWidth(rankChars, i) ==
    IF i > Len(rankChars) THEN 0
    ELSE (IF IsDigit(rankChars[i]) THEN parseInt(rankChars[i]) ELSE 1)
           + RankWidth(rankChars, i + 1)

\* `square` when the loop reaches the rank at index r (1-based)
RECURSIVE SquareAtRank(_, _)
SquareAtRank(ranks, r) ==
    IF r = 1 THEN 0
    ELSE SquareAtRank(ranks, r - 1) + RankWidth(ranks[r - 1], 1)

\* the keys zobristKeys[squareIndex][char] the loop meets in one rank (a
\* character without a key, undefined, leaves the hash as it is)
RECURSIVE KeysOfRank(_, _, _, _)
KeysOfRank(keys, rankChars, i, square) ==
    IF i > Len(rankChars) THEN << >>
    ELSE LET char == rankChars[i] IN
         IF IsDigit(char)
         THEN KeysOfRank(keys, rankChars, i + 1, square + parseInt(char))
         ELSE IF char \in Range(ZobristPieces) /\ square \in 0..63
         THEN << keys.square[square][PieceIndex(char)] >>
                \o KeysOfRank(keys, rankChars, i + 1, square + 1)
         ELSE KeysOfRank(keys, rankChars, i + 1, square + 1)

RECURSIVE KeysOfRanks(_, _, _)
KeysOfRanks(keys, ranks, r) ==
    IF r > Len(ranks) THEN << >>
    ELSE KeysOfRank(keys, ranks[r], 1, SquareAtRank(ranks, r))
           \o KeysOfRanks(keys, ranks, r + 1)

\* hash after the loop over the board
HashBoard(keys, board) == XorAll(0, KeysOfRanks(keys, split(board, "/"), 1))

\* hash after the loop over the castling field
HashCastling(keys, castling, hash) ==
    LET keyed == { i \in 1..Len(castling) : castling[i] \in Range(CastlingRights) }
        keyOf(i) == keys.castling[CHOOSE k \in 1..4 : CastlingRights[k] = castling[i]]
    IN  XorAll(hash, [ i \in keyed |-> keyOf(i) ])

\* Number.prototype.toString() of a non-negative integer
RECURSIVE toString(_)
toString(n) ==
    IF n < 10 THEN << DigitOrZero(n) >>
    ELSE toString(n \div 10) \o << DigitOrZero(n % 10) >>

computeZobristHash(keys, fen) ==
    LET parts == split(fen, " ")
        board == parts[1]
        turn == parts[2]
        castling == parts[3]
        h1 == HashBoard(keys, board)
        h2 == IF turn = << "b" >> THEN XorAll(h1, << keys.blackToMove >>) ELSE h1
        h3 == IF castling # << "-" >> THEN HashCastling(keys, castling, h2)
              ELSE h2
    IN  toString(h3)

MaterialOrderWhite == << "P", "N", "B", "R", "Q", "K" >>

MaterialOrderBlack == << "p", "n", "b", "r", "q", "k" >>

\* counts[char]++ over the characters of the board
CountOf(board, c) == Cardinality({ i \in DOMAIN board : board[i] = c })

RECURSIVE ConcatCounts(_, _, _)
ConcatCounts(board, order, i) ==
    IF i > Len(order) THEN << >>
    ELSE toString(CountOf(board, order[i])) \o ConcatCounts(board, order, i + 1)

getMaterialSignature(fen) ==
    LET board == BoardOf(fen)
    IN  ConcatCounts(board, MaterialOrderWhite, 1) \o << "-" >>
          \o ConcatCounts(board, MaterialOrderBlack, 1)

\* the inner loop, were a skip run of n squares to advance the file by one
RECURSIVE PiecesOfRankDigitAsOne(_, _, _, _)
PiecesOfRankDigitAsOne(rankChars, rank, i, file) ==
    IF i > Len(rankChars) THEN << >>
    ELSE LET char == rankChars[i] IN
         IF IsDigit(char)
         THEN PiecesOfRankDigitAsOne(rankChars, rank, i + 1, file + 1)
         ELSE << [ square |-> (7 - rank) * 8 + file, piece |-> char ] >>
                \o PiecesOfRankDigitAsOne(rankChars, rank, i + 1, file + 1)

\* the inner loop of extractPieceLocations over one rank
RECURSIVE PiecesOfRank(_, _, _, _)
PiecesOfRank(rankChars, rank, i, file) ==
    IF i > Len(rankChars) THEN << >>
    ELSE LET char == rankChars[i] IN
         IF IsDigit(char)
         THEN PiecesOfRank(rankChars, rank, i + 1, file + parseInt(char))
         ELSE << [ square |-> (7 - rank) * 8 + file, piece |-> char ] >>
                \o PiecesOfRank(rankChars, rank, i + 1, file + 1)

RECURSIVE PiecesOfRanks(_, _)
PiecesOfRanks(ranks, rank) ==
    IF rank > 7 THEN << >>
    ELSE PiecesOfRank(ranks[rank + 1], rank, 1, 0) \o PiecesOfRanks(ranks, rank + 1)

extractPieceLocations(fen) == PiecesOfRanks(split(BoardOf(fen), "/"), 0)

(***************************************************************************)
(* Pattern compiler (src/positionIndex.js).  A piece alternative is a      *)
(* string, so allowedPieces is a sequence of sequences of characters.      *)
(***************************************************************************)
\* the while loop, were a bracket group of k alternatives to advance the
\* file by k
RECURSIVE ParseRankGroupAdvancesByK(_, _, _, _)
ParseRankGroupAdvancesByK(rankChars, rank, i, file) ==
    IF i > Len(rankChars) THEN << >>
    ELSE LET char == rankChars[i] IN
         IF IsDigit(char)
         THEN ParseRankGroupAdvancesByK(rankChars, rank, i + 1,
                                        file + parseInt(char))
         ELSE IF char = "["
         THEN LET endBracket == indexOf(rankChars, "]", i)
                  allowedPieces ==
                    split(SubSeq(rankChars, i + 1, endBracket - 1), "|")
              IN
              IF endBracket # 0
              THEN << [ square |-> (7 - rank) * 8 + file,
                        allowedPieces |-> allowedPieces ] >>
                     \o ParseRankGroupAdvancesByK(rankChars, rank,
                                                  endBracket + 1,
                                                  file + Len(allowedPieces))
              ELSE ParseRankGroupAdvancesByK(rankChars, rank, i + 1, file)
         ELSE << [ square |-> (7 - rank) * 8 + file,
                   allowedPieces |-> << << char >> >> ] >>
                \o ParseRankGroupAdvancesByK(rankChars, rank, i + 1, file + 1)

\* the while loop of parsePatternRequirements over one rank
RECURSIVE ParseRank(_, _, _, _)
ParseRank(rankChars, rank, i, file) ==
    IF i > Len(rankChars) THEN << >>
    ELSE LET char == rankChars[i] IN
         IF IsDigit(char)
         THEN ParseRank(rankChars, rank, i + 1, file + parseInt(char))
         ELSE IF char = "["
         THEN LET endBracket == indexOf(rankChars, "]", i) IN
              IF endBracket # 0
              THEN << [ square |-> (7 - rank) * 8 + file,
                        allowedPieces |->
                            split(SubSeq(rankChars, i + 1, endBracket - 1), "|") ] >>
                     \o ParseRank(rankChars, rank, endBracket + 1, file + 1)
              ELSE ParseRank(rankChars, rank, i + 1, file)
         ELSE << [ square |-> (7 - rank) * 8 + file,
                   allowedPieces |-> << << char >> >> ] >>
                \o ParseRank(rankChars, rank, i + 1, file + 1)

RECURSIVE ParseRanks(_, _)
ParseRanks(targetRanks, rank) ==
    IF rank > 7 THEN << >>
    ELSE ParseRank(targetRanks[rank + 1], rank, 1, 0)
           \o ParseRanks(targetRanks, rank + 1)

\* threw: the TypeError of targetRanks[rank].length on a pattern of fewer
\* than 8 ranks, the only exception the function can raise
parsePatternRequirements(targetFen) ==
    LET targetRanks == split(BoardOf(targetFen), "/")
    IN  IF Len(targetRanks) < 8
        THEN [ threw |-> TRUE, requirements |-> << >> ]
        ELSE [ threw |-> FALSE, requirements |-> ParseRanks(targetRanks, 0) ]

\* the parsing loop of searchPositionPattern(targetFen, 'pattern')
RECURSIVE ScanRank(_, _, _, _)
ScanRank(rankChars, rank, i, file) ==
    IF i > Len(rankChars) THEN << >>
    ELSE LET char == rankChars[i] IN
         IF IsDigit(char)
         THEN ScanRank(rankChars, rank, i + 1, file + parseInt(char))
         ELSE IF char = "["
         THEN LET endBracket == indexOf(rankChars, "]", i) IN
              IF endBracket # 0
              THEN << [ rank |-> rank, file |-> file,
                        allowedPieces |->
                            split(SubSeq(rankChars, i + 1, endBracket - 1), "|") ] >>
                     \o ScanRank(rankChars, rank, endBracket + 1, file + 1)
              ELSE ScanRank(rankChars, rank, i + 1, file)
         ELSE << [ rank |-> rank, file |-> file,
                   allowedPieces |-> << << char >> >> ] >>
                \o ScanRank(rankChars, rank, i + 1, file + 1)

RECURSIVE ScanRanks(_, _)
ScanRanks(targetRanks, rank) ==
    IF rank > 7 THEN << >>
    ELSE ScanRank(targetRanks[rank + 1], rank, 1, 0)
           \o ScanRanks(targetRanks, rank + 1)

pieceRequirements(targetFen) == ScanRanks(split(BoardOf(targetFen), "/"), 0)

\* the scan of one rank of the position for one requirement: the value of
\* `found` when the loop ends, FALSE also for the early `return false`
RECURSIVE RequirementFound(_, _, _, _)
RequirementFound(fenRank, req, i, file) ==
    IF i > Len(fenRank) THEN FALSE
    ELSE LET char == fenRank[i] IN
         IF IsDigit(char)
         THEN LET emptySquares == parseInt(char) IN
              IF file <= req.file /\ req.file < file + emptySquares
              THEN FALSE
              ELSE RequirementFound(fenRank, req, i + 1, file + emptySquares)
         ELSE IF file = req.file
              THEN << char >> \in Range(req.allowedPieces)
              ELSE RequirementFound(fenRank, req, i + 1, file + 1)

\* the predicate searchPositionPattern(targetFen, 'pattern') returns,
\* applied to fen
searchPositionPattern(targetFen, fen) ==
    LET reqs == pieceRequirements(targetFen)
        fenRanks == split(BoardOf(fen), "/")
    IN  \A k \in DOMAIN reqs :
            RequirementFound(fenRanks[reqs[k].rank + 1], reqs[k], 1, 0)

(***************************************************************************)
(* Inputs.  Move replay is done by chess.js: extractAllPositions is the    *)
(* table of what it yields for the move texts the model imports.  Every    *)
(* game starts from the initial position.                                  *)
(***************************************************************************)
FenStart ==
    << "r", "n", "b", "q", "k", "b", "n", "r", "/", "p", "p", "p", "p", "p",
       "p", "p", "p", "/", "8", "/", "8", "/", "8", "/", "8", "/", "P", "P",
       "P", "P", "P", "P", "P", "P", "/", "R", "N", "B", "Q", "K", "B", "N",
       "R", " ", "w", " ", "K", "Q", "k", "q", " ", "-", " ", "0", " ", "1" >>

FenD4 ==
    << "r", "n", "b", "q", "k", "b", "n", "r", "/", "p", "p", "p", "p", "p",
       "p", "p", "p", "/", "8", "/", "8", "/", "3", "P", "4", "/", "8", "/",
       "P", "P", "P", "1", "P", "P", "P", "P", "/", "R", "N", "B", "Q", "K",
       "B", "N", "R", " ", "b", " ", "K", "Q", "k", "q", " ", "-", " ", "0",
       " ", "1" >>

FenE4 ==
    << "r", "n", "b", "q", "k", "b", "n", "r", "/", "p", "p", "p", "p", "p",
       "p", "p", "p", "/", "8", "/", "8", "/", "4", "P", "3", "/", "8", "/",
       "P", "P", "P", "P", "1", "P", "P", "P", "/", "R", "N", "B", "Q", "K",
       "B", "N", "R", " ", "b", " ", "K", "Q", "k", "q", " ", "-", " ", "0",
       " ", "1" >>

FenE4D5 ==
    << "r", "n", "b", "q", "k", "b", "n", "r", "/", "p", "p", "p", "1", "p",
       "p", "p", "p", "/", "8", "/", "3", "p", "4", "/", "4", "P", "3", "/",
       "8", "/", "P", "P", "P", "P", "1", "P", "P", "P", "/", "R", "N", "B",
       "Q", "K", "B", "N", "R", " ", "w", " ", "K", "Q", "k", "q", " ", "-",
       " ", "0", " ", "2" >>

FenExD5 ==
    << "r", "n", "b", "q", "k", "b", "n", "r", "/", "p", "p", "p", "1", "p",
       "p", "p", "p", "/", "8", "/", "3", "P", "4", "/", "8", "/", "8", "/",
       "P", "P", "P", "P", "1", "P", "P", "P", "/", "R", "N", "B", "Q", "K",
       "B", "N", "R", " ", "b", " ", "K", "Q", "k", "q", " ", "-", " ", "0",
       " ", "2" >>

MoveTexts == { "", "1. d4", "1. e4 d5 2. exd5" }

extractAllPositions(pgn) ==
    LET start == [ fen |-> FenStart, moveNumber |-> 0, move |-> "" ]
    IN  IF pgn = "1. d4"
        THEN << start, [ fen |-> FenD4, moveNumber |-> 1, move |-> "d4" ] >>
        ELSE IF pgn = "1. e4 d5 2. exd5"
        THEN << start,
                [ fen |-> FenE4, moveNumber |-> 1, move |-> "e4" ],
                [ fen |-> FenE4D5, moveNumber |-> 1, move |-> "d5" ],
                [ fen |-> FenExD5, moveNumber |-> 2, move |-> "exd5" ] >>
        ELSE << start >>

\* the digits that skip n squares: nothing for n = 0
SkipRun(n) == IF n = 0 THEN << >> ELSE << DigitChars[n] >>

\* a pattern string whose rank written at index `rank` is rankChars, every
\* other rank 8, followed by " w - - 0 1"
RankPattern(rank, rankChars) ==
    join([ r \in 1..8 |-> IF r = rank + 1 THEN rankChars ELSE << "8" >> ], "/")
      \o << " ", "w", " ", "-", " ", "-", " ", "0", " ", "1" >>

\* `group` on file `file` of that rank, every other square skipped
GroupPattern(rank, file, group) ==
    RankPattern(rank, SkipRun(file) \o group \o SkipRun(7 - file))

\* the same with a second group on the rank written at index rank2
TwoGroupPattern(rank, file, group, rank2, file2, group2) ==
    join([ r \in 1..8 |->
             IF r = rank + 1
             THEN SkipRun(file) \o group \o SkipRun(7 - file)
             ELSE IF r = rank2 + 1
             THEN SkipRun(file2) \o group2 \o SkipRun(7 - file2)
             ELSE << "8" >> ], "/")

One(a) == << a >>

Either(a, b) == << "[", a, "|", b, "]" >>

\* 8/8/8/8/3P4/8/8/8 and its relatives on d4, d5 and e4
PatD4P == GroupPattern(4, 3, One("P"))
PatD5p == GroupPattern(3, 3, One("p"))
PatD5P == GroupPattern(3, 3, One("P"))
PatD5pP == GroupPattern(3, 3, Either("p", "P"))
PatD4PN == GroupPattern(4, 3, Either("P", "N"))
\* P on d5 and P on e4; [p|P] on d5 and [P|N] on e4
PatD5PE4P == TwoGroupPattern(3, 3, One("P"), 4, 4, One("P"))
PatD5pPE4PN == TwoGroupPattern(3, 3, Either("p", "P"), 4, 4, Either("P", "N"))
\* no piece at all
PatEmpty == RankPattern(0, << "8" >>)
\* a rank of 9 squares: 8/8r/8/8/8/8/8/8
PatOverfull == RankPattern(1, << "8", "r" >>)
\* an unterminated bracket: 8/8/8/8/3[P|N/8/8/8
PatUnterminated == RankPattern(4, << "3", "[", "P", "|", "N" >>)
\* only 7 ranks
PatShort == << "8", "/", "8", "/", "8", "/", "8", "/", "3", "P", "4", "/",
               "8", "/", "8" >>

(***************************************************************************)
(* The store of server.js.  games, positions and piece_locations are the   *)
(* tables (piece_locations has no key, so it is a bag of rows              *)
(* <<position_id, square, piece>>); seqGames and seqPositions are the      *)
(* AUTOINCREMENT counters, which never hand out an id twice; zobristSeed   *)
(* is the random stream the running process drew its key table from;       *)
(* lastSearch is the response of the last POST /api/positions/search.      *)
(* Foreign keys are declared but PRAGMA foreign_keys is never switched on, *)
(* so no DELETE cascades.                                                  *)
(***************************************************************************)
VARIABLES games, positions, piece_locations, seqGames, seqPositions,
          zobristSeed, lastSearch

(***************************************************************************)
(* The codec applied to a pair of boards: boards is the input, signatures  *)
(* what getMaterialSignature returned for them (<< >> before the call).    *)
(***************************************************************************)
VARIABLES boards, signatures

(***************************************************************************)
(* extractPieceLocations applied to a board: extraction.board is the       *)
(* placement the encoding extraction.fen was written from, pieces what the *)
(* call returned, done whether it was made.                                *)
(***************************************************************************)
VARIABLES extraction

(***************************************************************************)
(* parsePatternRequirements applied to a pattern: compilation.groups is    *)
(* the constraint per square the pattern compilation.fen was written from, *)
(* result what the call returned, done whether it was made.                *)
(***************************************************************************)
VARIABLES compilation

(***************************************************************************)
(* One run of BatchImporter.ImportWithChannels (Go): the context, the      *)
(* game stream, the producer goroutine, the jobs, errors and progress      *)
(* channels, the import workers, the two atomic counters, the rows         *)
(* committed to the database and the calling goroutine.                    *)
(***************************************************************************)
VARIABLES ctxDone, streamed, producer, jobs, errors, progressChan, workers,
          importStats, failedStats, dbRows, caller

(***************************************************************************)
(* job.Status of the BatchHandler's ImportJob that runs the import.        *)
(***************************************************************************)
VARIABLES jobStatus

(***************************************************************************)
(* job.Progress of that ImportJob: job is the number of the job on the     *)
(* BatchHandler, Imported, Failed and TotalProcessed what the job reports; *)
(* startImported and startFailed are what the counters of the handler's    *)
(* importer held when the job was started.                                 *)
(***************************************************************************)
VARIABLES report

(***************************************************************************)
(* The parse stage that feeds the import (processLargeImport and           *)
(* ConcurrentParser.StreamParsePGN): pgnKinds says what each game record   *)
(* of the upload is, feeder is the goroutine that sends the texts of the   *)
(* upload to pgnChannel, dispatcher the goroutine that ranges over         *)
(* pgnChannel, tasks the parse goroutines it started (each holds a slot of *)
(* the semaphore), gameChannel the stream the importer ranges over.  Both  *)
(* channels have room for 100 items, more than an upload of the model      *)
(* holds, so a send on them never waits.                                   *)
(***************************************************************************)
VARIABLES pgnKinds, feeder, pgnChannel, dispatcher, tasks, gameChannel

(***************************************************************************)
(* One call of ConcurrentParser.ParsePGNBatch: its argument pgnTexts, the  *)
(* numWorkers of the parser, the jobs and results channels, the feeding    *)
(* goroutine (fed: the jobs it has sent), the workers, the two slices      *)
(* being filled and the caller's position.  made counts the results sent   *)
(* per index.                                                              *)
(***************************************************************************)
VARIABLES parseBatch

(***************************************************************************)
(* One request POST /api/index/pieces/rebuild of server.js: pc is the      *)
(* await the handler stands at, total the count it read, offset and        *)
(* processed the variables of its loop.                                    *)
(***************************************************************************)
VARIABLES rebuild

storeVars == << games, positions, piece_locations, seqGames, seqPositions,
                zobristSeed >>

jsVars == << games, positions, piece_locations, seqGames, seqPositions,
             zobristSeed, lastSearch >>

codecVars ==
    << boards, signatures, extraction, compilation, rebuild, report >>

parseStageVars ==
    << parseBatch, pgnKinds, feeder, pgnChannel, dispatcher, tasks >>

parseVars ==
    << parseBatch, pgnKinds, feeder, pgnChannel, dispatcher, tasks,
       gameChannel >>

goVars == << ctxDone, streamed, producer, jobs, errors, progressChan, workers,
             importStats, failedStats, dbRows, caller, jobStatus >>

zobristKeys == generateZobristKeys(zobristSeed)

RECURSIVE SortDesc(_)
SortDesc(S) ==
    IF S = {} THEN << >>
    ELSE LET m == CHOOSE x \in S : \A y \in S : y <= x
         IN  << m >> \o SortDesc(S \ { m })

RECURSIVE SortAsc(_)
SortAsc(S) ==
    IF S = {} THEN << >>
    ELSE LET m == CHOOSE x \in S : \A y \in S : x <= y
         IN  << m >> \o SortAsc(S \ { m })

\* ... LIMIT limit OFFSET offset of an ordered list
LimitOffset(list, limit, offset) ==
    SubSeq(list, offset + 1, IF offset + limit < Len(list) THEN offset + limit
                             ELSE Len(list))

\* The lastID property of the Statement that stmt.run(...) returns, as the
\* caller reads it in the same tick: run() only queues the INSERT (which
\* will produce insertedId), lastID is set when the INSERT has executed, so
\* the caller reads undefined and binds it as NULL.
lastIDOfRun(insertedId) == NULL

\* the piece_locations rows one position contributes
PieceRows(positionId, fenPosition) ==
    SetToBag({ << positionId, pc.square, pc.piece >> :
                 pc \in Range(extractPieceLocations(fenPosition)) })

\* the position row INSERTed for the k-th extracted position
PositionRow(gameId, pos, id) ==
    [ id |-> id, game_id |-> gameId, move_number |-> pos.moveNumber,
      fen |-> pos.fen, fen_position |-> BoardOf(pos.fen),
      zobrist_hash |-> computeZobristHash(zobristKeys, pos.fen),
      material_signature |-> getMaterialSignature(pos.fen),
      move |-> pos.move ]

RECURSIVE IndexedPieces(_, _, _)
IndexedPieces(extracted, base, k) ==
    IF k > Len(extracted) THEN EmptyBag
    ELSE PieceRows(lastIDOfRun(base + k), BoardOf(extracted[k].fen))
           (+) IndexedPieces(extracted, base, k + 1)

\* indexGamePositions(gameId, moves) with `base` the last position id
\* handed out: the rows its statements add
indexGamePositions(gameId, moves, base) ==
    LET extracted == extractAllPositions(moves)
    IN  [ positions |-> { PositionRow(gameId, extracted[k], base + k) :
                            k \in DOMAIN extracted },
          pieces |-> IndexedPieces(extracted, base, 1),
          count |-> Len(extracted) ]

\* the same for a list of games, one after the other
RECURSIVE IndexGames(_, _)
IndexGames(gameList, base) ==
    IF Len(gameList) = 0
    THEN [ positions |-> {}, pieces |-> EmptyBag, count |-> 0 ]
    ELSE LET head == indexGamePositions(gameList[1].id, gameList[1].moves, base)
             rest == IndexGames(Tail(gameList), base + head.count)
         IN  [ positions |-> head.positions \cup rest.positions,
               pieces |-> head.pieces (+) rest.pieces,
               count |-> head.count + rest.count ]

GameById(id) == CHOOSE g \in games : g.id = id

\* the rows of a SELECT ... FROM games, in id order
GamesInOrder(gs) ==
    LET ids == SortAsc({ g.id : g \in gs })
    IN  [ k \in DOMAIN ids |-> CHOOSE g \in gs : g.id = ids[k] ]

(***************************************************************************)
(* buildOptimizedPatternQuery: the SQL it assembles, by what SQLite        *)
(* answers on the current tables.                                          *)
(***************************************************************************)
\* the subquery with piece = allowedPieces[0] in place of piece IN (...)
SubqueryFirstPieceOnly(req) ==
    { row[1] : row \in { r \in DOMAIN piece_locations :
                           /\ r[2] = req.square
                           /\ << r[3] >> = req.allowedPieces[1] } }

\* SELECT position_id FROM piece_locations
\*   WHERE square = ? AND piece IN (...allowedPieces)
Subquery(req) ==
    { row[1] : row \in { r \in DOMAIN piece_locations :
                           /\ r[2] = req.square
                           /\ << r[3] >> \in Range(req.allowedPieces) } }

\* intersectQuery after the first n subqueries: each INNER JOIN ... ON
\* p1.position_id = pN.position_id keeps the ids both sides have; NULL is
\* equal to nothing
RECURSIVE IntersectQuery(_, _)
IntersectQuery(requirements, n) ==
    IF n = 1 THEN Subquery(requirements[1])
    ELSE { id \in IntersectQuery(requirements, n - 1) :
             id # NULL /\ id \in Subquery(requirements[n]) }

\* p.id IN (intersectQuery)
MatchingPositions(requirements) ==
    { p \in positions :
        p.id \in (IntersectQuery(requirements, Len(requirements)) \ { NULL }) }

\* SELECT DISTINCT p2.game_id FROM positions p2 WHERE p2.id IN (...)
\*   ORDER BY p2.game_id DESC LIMIT limit OFFSET offset
PagedGameIds(requirements, limit, offset) ==
    LimitOffset(SortDesc({ p.game_id : p \in MatchingPositions(requirements) }),
                limit, offset)

\* the rows of finalQuery (ORDER BY g.id DESC, p.move_number leaves rows of
\* one game with equal move_number in any order: the rows are kept as a set)
FinalQueryRows(requirements, limit, offset) ==
    { [ id |-> p.game_id, move_number |-> p.move_number, move |-> p.move,
        position_id |-> p.id ] :
        p \in { q \in MatchingPositions(requirements) :
                  /\ \E g \in games : g.id = q.game_id
                  /\ q.game_id \in Range(PagedGameIds(requirements, limit, offset)) } }

\* SELECT COUNT(DISTINCT p.game_id) as total FROM positions p
\*   WHERE p.id IN (...)
CountQueryTotal(requirements) ==
    Cardinality({ p.game_id : p \in MatchingPositions(requirements) })

\* the plan of a pattern without requirements, were it 'SELECT 1 WHERE 1'
\* style: no filter, every indexed game matches
EmptyPatternMatchesAll(limit, offset) ==
    LET ids == LimitOffset(SortDesc({ p.game_id : p \in positions }),
                           limit, offset)
    IN  [ threw |-> FALSE,
          rows |-> { [ id |-> p.game_id, move_number |-> p.move_number,
                       move |-> p.move, position_id |-> p.id ] :
                       p \in { q \in positions : q.game_id \in Range(ids) } },
          total |-> Cardinality({ p.game_id : p \in positions }) ]

\* the plan of a pattern without requirements:
\* query 'SELECT 1 WHERE 0', countQuery 'SELECT 0 as total'
EmptyPatternPlan(limit, offset) ==
    [ threw |-> FALSE, rows |-> {}, total |-> 0 ]

\* what the query and the countQuery of
\* buildOptimizedPatternQuery(fen, limit, offset) return when run
buildOptimizedPatternQuery(fen, limit, offset) ==
    LET parsed == parsePatternRequirements(fen)
        requirements == parsed.requirements
    IN  IF parsed.threw
        THEN [ threw |-> TRUE, rows |-> {}, total |-> 0 ]
        ELSE IF Len(requirements) = 0
        THEN EmptyPatternPlan(limit, offset)
        ELSE [ threw |-> FALSE,
               rows |-> FinalQueryRows(requirements, limit, offset),
               total |-> CountQueryTotal(requirements) ]

(***************************************************************************)
(* The handlers of server.js.                                              *)
(***************************************************************************)
RECURSIVE RebuiltPieces(_)
RebuiltPieces(rows) ==
    IF Len(rows) = 0 THEN EmptyBag
    ELSE PieceRows(rows[1].id, rows[1].fen_position) (+) RebuiltPieces(Tail(rows))

\* SELECT id, fen_position FROM positions ORDER BY id
PositionsInOrder ==
    LET ids == SortAsc({ p.id : p \in positions })
    IN  [ k \in DOMAIN ids |-> CHOOSE p \in positions : p.id = ids[k] ]

\* POST /api/games/import and /api/games/upload, for one game of the PGN:
\* the INSERT into games and, from its callback, indexGamePositions
ImportGame(moves) ==
    LET gameId == seqGames + 1
        ix == indexGamePositions(gameId, moves, seqPositions)
    IN  /\ seqGames < MaxGames
        /\ seqPositions + ix.count <= MaxPositions
        /\ games' = games \cup { [ id |-> gameId, moves |-> moves ] }
        /\ positions' = positions \cup ix.positions
        /\ piece_locations' = piece_locations (+) ix.pieces
        /\ seqGames' = gameId
        /\ seqPositions' = seqPositions + ix.count
        /\ UNCHANGED << zobristSeed, lastSearch, codecVars, parseVars, goVars >>

\* DELETE /api/games/:id for an existing game: DELETE FROM games WHERE id = ?
DeleteGame(id) ==
    /\ \E g \in games : g.id = id
    /\ games' = { g \in games : g.id # id }
    /\ UNCHANGED << positions, piece_locations, seqGames, seqPositions,
                    zobristSeed, lastSearch, codecVars, parseVars, goVars >>

\* POST /api/index/rebuild: DELETE FROM positions, then every game indexed
IndexRebuild ==
    LET ix == IndexGames(GamesInOrder(games), seqPositions)
    IN  /\ positions # {} \/ games # {}
        /\ seqPositions + ix.count <= MaxPositions
        /\ positions' = ix.positions
        /\ piece_locations' = piece_locations (+) ix.pieces
        /\ seqPositions' = seqPositions + ix.count
        /\ UNCHANGED << games, seqGames, zobristSeed, lastSearch, codecVars, parseVars,
                        goVars >>

\* POST /api/index/clear: DELETE FROM positions
IndexClear ==
    /\ positions # {}
    /\ positions' = {}
    /\ UNCHANGED << games, piece_locations, seqGames, seqPositions,
                    zobristSeed, lastSearch, codecVars, parseVars, goVars >>

\* the SELECT, were it to lack WHERE p.game_id IS NULL
EveryGame == games

\* SELECT g.id, g.moves FROM games g LEFT JOIN positions p
\*   ON g.id = p.game_id WHERE p.game_id IS NULL
GamesWithoutPositions ==
    { g \in games : ~ \E p \in positions : p.game_id = g.id }

\* the answer of POST /api/index/fix in the current state: fixed counts
\* the games of the SELECT
FixResponse ==
    [ success |-> TRUE, fixed |-> Cardinality(GamesWithoutPositions) ]

\* POST /api/index/fix: the games without a position row are indexed
IndexFix ==
    LET missing == GamesWithoutPositions
        ix == IndexGames(GamesInOrder(missing), seqPositions)
    IN  /\ missing # {}
        /\ seqPositions + ix.count <= MaxPositions
        /\ positions' = positions \cup ix.positions
        /\ piece_locations' = piece_locations (+) ix.pieces
        /\ seqPositions' = seqPositions + ix.count
        /\ UNCHANGED << games, seqGames, zobristSeed, lastSearch, codecVars, parseVars,
                        goVars >>

\* POST /api/index/pieces/rebuild (and scripts/build-piece-index.js):
\* DELETE FROM piece_locations, then the rows of every position row
PiecesRebuild ==
    /\ positions # {}
    /\ piece_locations' = RebuiltPieces(PositionsInOrder)
    /\ UNCHANGED << games, positions, seqGames, seqPositions, zobristSeed,
                    lastSearch, codecVars, parseVars, goVars >>

\* const BATCH = 2000 of the handler, scaled to the stores of the model
BATCH == 2

\* the handler's other store variables and the rest of the state
rebuildFrame ==
    << games, positions, seqGames, seqPositions, zobristSeed, lastSearch,
       boards, signatures, extraction, compilation, report, parseVars,
       goVars >>

\* POST /api/index/pieces/rebuild arrives:
\* SELECT COUNT(*) as count FROM positions; if (!total) return res.json(...)
RebuildCount ==
    /\ rebuild.pc \in { "idle", "completed" }
    /\ positions # {}
    /\ rebuild' = [ pc |-> "delete", total |-> Cardinality(positions),
                    offset |-> 0, processed |-> 0 ]
    /\ UNCHANGED << piece_locations, rebuildFrame >>

\* await run('DELETE FROM piece_locations')
RebuildDelete ==
    /\ rebuild.pc = "delete"
    /\ piece_locations' = EmptyBag
    /\ rebuild' = [ rebuild EXCEPT !.pc = "loop" ]
    /\ UNCHANGED rebuildFrame

\* SELECT id, fen_position FROM positions ORDER BY id LIMIT ? OFFSET ?
RebuildSelect(limit, offset) ==
    LET rows == PositionsInOrder
        last == IF offset + limit < Len(rows) THEN offset + limit
                ELSE Len(rows)
    IN  SubSeq(rows, offset + 1, last)

\* one turn of for (offset = 0; offset < total; offset += BATCH): the
\* SELECT of the batch and the transaction that inserts its piece rows
RebuildBatch ==
    LET batch == RebuildSelect(BATCH, rebuild.offset)
    IN  /\ rebuild.pc = "loop"
        /\ rebuild.offset < rebuild.total
        /\ piece_locations' = piece_locations (+) RebuiltPieces(batch)
        /\ rebuild' = [ rebuild EXCEPT
                          !.offset = @ + BATCH,
                          !.processed = @ + Len(batch) ]
        /\ UNCHANGED rebuildFrame

\* the loop is over: SELECT COUNT(*) FROM piece_locations and res.json(...)
RebuildRespond ==
    /\ rebuild.pc = "loop"
    /\ rebuild.offset >= rebuild.total
    /\ rebuild' = [ rebuild EXCEPT !.pc = "completed" ]
    /\ UNCHANGED << piece_locations, rebuildFrame >>

\* the server process is restarted: generateZobristKeys() runs again
Restart ==
    /\ zobristSeed' \in 1..NumSeeds
    /\ UNCHANGED << games, positions, piece_locations, seqGames,
                    seqPositions, lastSearch, codecVars, parseVars, goVars >>

\* the response of POST /api/positions/search
SearchResponse(searchType, fen, page, pageSize, status, total, rows) ==
    [ searchType |-> searchType, fen |-> fen, page |-> page,
      pageSize |-> pageSize, status |-> status, success |-> (status = 200),
      totalGames |-> total, rows |-> rows ]

\* POST /api/positions/search with searchType 'pattern'
Search(fen, page, pageSize) ==
    LET limit == pageSize
        offset == (page - 1) * pageSize
        queryResult == buildOptimizedPatternQuery(fen, limit, offset)
    IN  /\ lastSearch' =
              IF queryResult.threw
              THEN SearchResponse("pattern", fen, page, pageSize, 500, 0, {})
              ELSE SearchResponse("pattern", fen, page, pageSize, 200,
                                  queryResult.total, queryResult.rows)
        /\ UNCHANGED << storeVars, codecVars, parseVars, goVars >>

\* the positions JOIN games rows WHERE p.zobrist_hash = ?
ZobristMatches(zobristHash) ==
    { p \in positions : /\ p.zobrist_hash = zobristHash
                        /\ \E g \in games : g.id = p.game_id }

\* POST /api/positions/search with searchType 'zobrist'
SearchZobrist(fen, page, pageSize) ==
    LET limit == pageSize
        offset == (page - 1) * pageSize
        zobristHash == computeZobristHash(zobristKeys, fen)
        matches == ZobristMatches(zobristHash)
        paged == LimitOffset(SortDesc({ p.game_id : p \in matches }),
                             limit, offset)
        rows == { [ id |-> p.game_id, move_number |-> p.move_number,
                    move |-> p.move, position_id |-> p.id ] :
                    p \in { q \in matches : q.game_id \in Range(paged) } }
    IN  /\ lastSearch' =
              SearchResponse("zobrist", fen, page, pageSize, 200,
                             Cardinality({ p.game_id : p \in matches }), rows)
        /\ UNCHANGED << storeVars, codecVars, parseVars, goVars >>

(***************************************************************************)
(* getMaterialSignature applied to two boards.                             *)
(***************************************************************************)
\* the symbols a board holds n times each, n given per symbol
RECURSIVE SymbolsOf(_, _, _)
SymbolsOf(order, counts, i) ==
    IF i > Len(order) THEN << >>
    ELSE [ k \in 1..counts[i] |-> order[i] ] \o SymbolsOf(order, counts, i + 1)

\* one rank of a board: the symbols on it, then the run of empty squares
RankOfSymbols(symbols, r) ==
    LET from == 8 * (r - 1) + 1
        upto == IF 8 * r < Len(symbols) THEN 8 * r ELSE Len(symbols)
        placed == IF from > Len(symbols) THEN << >>
                  ELSE SubSeq(symbols, from, upto)
    IN  IF Len(placed) = 8 THEN placed ELSE placed \o SkipRun(8 - Len(placed))

\* a FEN whose board holds whiteCounts[i] of MaterialOrderWhite[i] and
\* blackCounts[i] of MaterialOrderBlack[i]
BoardWithCounts(whiteCounts, blackCounts) ==
    LET symbols == SymbolsOf(MaterialOrderWhite, whiteCounts, 1)
                     \o SymbolsOf(MaterialOrderBlack, blackCounts, 1)
    IN  join([ r \in 1..8 |-> RankOfSymbols(symbols, r) ], "/")
          \o << " ", "w", " ", "-", " ", "-", " ", "0", " ", "1" >>

\* the twelve counts of a board, read back from it
CountVector(fen) ==
    [ i \in 1..12 |->
        IF i <= 6 THEN CountOf(BoardOf(fen), MaterialOrderWhite[i])
        ELSE CountOf(BoardOf(fen), MaterialOrderBlack[i - 6]) ]

\* the per-symbol counts the boards are drawn from
CountChoices == { 0, 1, MaxCount }

\* the boards: N, B and R of White vary, both kings are on the board
BoardInputs ==
    { BoardWithCounts(<< 0, n, b, r, 0, 1 >>, << 0, 0, 0, 0, 0, 1 >>) :
        n \in CountChoices, b \in CountChoices, r \in CountChoices }

\* no board is handed to extractPieceLocations
ExtractIdle ==
    extraction = [ board |-> << >>, fen |-> << >>, pieces |-> << >>,
                   done |-> FALSE ]

\* no pattern is handed to parsePatternRequirements
CompileIdle ==
    compilation = [ groups |-> << >>, fen |-> << >>,
                    result |-> [ threw |-> FALSE, requirements |-> << >> ],
                    done |-> FALSE ]

CodecIdle ==
    /\ boards = << >>
    /\ signatures = << >>
    /\ ExtractIdle
    /\ CompileIdle

\* getMaterialSignature is called on both boards
ComputeSignatures ==
    /\ boards # << >>
    /\ signatures = << >>
    /\ signatures' = << getMaterialSignature(boards[1]),
                        getMaterialSignature(boards[2]) >>
    /\ UNCHANGED << boards, extraction, compilation, rebuild, report,
                    jsVars, goVars, parseVars >>

(***************************************************************************)
(* extractPieceLocations applied to a board.  A placement is a function    *)
(* from the occupied squares (a1 = 0, h1 = 7, a8 = 56, h8 = 63) to piece   *)
(* symbols.                                                                *)
(***************************************************************************)
\* n empty squares as written: one skip run, or n runs of one square
EmptyRun(n, unitRuns) ==
    IF unitRuns THEN [ k \in 1..n |-> "1" ] ELSE SkipRun(n)

\* the rank written at index `rank` from file `file` on, `run` empty
\* squares pending
RECURSIVE RankEncoding(_, _, _, _, _)
RankEncoding(board, unitRuns, rank, file, run) ==
    IF file > 7 THEN EmptyRun(run, unitRuns)
    ELSE LET square == (7 - rank) * 8 + file IN
         IF square \in DOMAIN board
         THEN EmptyRun(run, unitRuns) \o << board[square] >>
                \o RankEncoding(board, unitRuns, rank, file + 1, 0)
         ELSE RankEncoding(board, unitRuns, rank, file + 1, run + 1)

\* the encoding of a placement, eighth rank first
EncodeBoard(board, unitRuns) ==
    join([ r \in 1..8 |-> RankEncoding(board, unitRuns, r - 1, 0, 0) ], "/")
      \o << " ", "w", " ", "-", " ", "-", " ", "0", " ", "1" >>

BackRank == << "r", "n", "b", "q", "k", "b", "n", "r" >>

WhiteBackRank == << "R", "N", "B", "Q", "K", "B", "N", "R" >>

\* rnbqkbnr/pppppppp/8/8/8/8/PPPPPPPP/RNBQKBNR
StartBoard ==
    [ square \in (0..15) \cup (48..63) |->
        IF square < 8 THEN WhiteBackRank[square + 1]
        ELSE IF square < 16 THEN "P"
        ELSE IF square < 56 THEN "p"
        ELSE BackRank[square - 55] ]

\* the squares and symbols the small placements are drawn from
SquareChoices == { 0, 1, 7, 27, 28, 36, 56, 63 }

SymbolChoices == { "P", "k" }

MaxPieces == 3

\* the placements: at most MaxPieces pieces on the chosen squares, and the
\* starting position
Placements ==
    UNION { [ squares -> SymbolChoices ] :
              squares \in { S \in SUBSET SquareChoices :
                              Cardinality(S) <= MaxPieces } }
      \cup { StartBoard }

ExtractInputs ==
    { [ board |-> board, fen |-> EncodeBoard(board, unitRuns),
        pieces |-> << >>, done |-> FALSE ] :
        board \in Placements, unitRuns \in BOOLEAN }

\* extractPieceLocations is called on the encoding
ExtractPieces ==
    /\ extraction.fen # << >>
    /\ ~ extraction.done
    /\ extraction' = [ extraction EXCEPT
                         !.pieces = extractPieceLocations(extraction.fen),
                         !.done = TRUE ]
    /\ UNCHANGED << boards, signatures, compilation, rebuild, report,
                    jsVars, goVars, parseVars >>

(***************************************************************************)
(* parsePatternRequirements applied to a pattern.  The groups of a pattern *)
(* are a function from the constrained squares to the alternatives allowed *)
(* there, each alternative a string.                                       *)
(***************************************************************************)
\* a constraint as written: a bare symbol, or the alternatives in brackets
WriteGroup(alternatives, bracketSingle) ==
    IF Len(alternatives) = 1 /\ ~ bracketSingle
    THEN alternatives[1]
    ELSE << "[" >> \o join(alternatives, "|") \o << "]" >>

\* the rank written at index `rank` from file `file` on, `run` empty
\* squares pending
RECURSIVE PatternRankEncoding(_, _, _, _, _, _)
PatternRankEncoding(groups, unitRuns, bracketSingle, rank, file, run) ==
    IF file > 7 THEN EmptyRun(run, unitRuns)
    ELSE LET square == (7 - rank) * 8 + file IN
         IF square \in DOMAIN groups
         THEN EmptyRun(run, unitRuns)
                \o WriteGroup(groups[square], bracketSingle)
                \o PatternRankEncoding(groups, unitRuns, bracketSingle, rank,
                                       file + 1, 0)
         ELSE PatternRankEncoding(groups, unitRuns, bracketSingle, rank,
                                  file + 1, run + 1)

\* the pattern string of the groups, eighth rank first
EncodePattern(groups, unitRuns, bracketSingle) ==
    join([ r \in 1..8 |->
             PatternRankEncoding(groups, unitRuns, bracketSingle, r - 1, 0, 0) ],
         "/")
      \o << " ", "w", " ", "-", " ", "-", " ", "0", " ", "1" >>

\* the alternatives a constrained square is given
GroupChoices ==
    { << << "P" >> >>, << << "k" >> >>, << << "P" >>, << "N" >> >>,
      << << "p" >>, << "P" >>, << "k" >> >> }

MaxGroups == 2

\* the well-formed patterns: at most MaxGroups constraints on the chosen
\* squares, and rooks on a1 and h1
PatternGroups ==
    UNION { [ squares -> GroupChoices ] :
              squares \in { S \in SUBSET SquareChoices :
                              Cardinality(S) <= MaxGroups } }
      \cup { [ square \in { 0, 7 } |-> << << "R" >> >> ] }

CompileInputs ==
    { [ groups |-> groups,
        fen |-> EncodePattern(groups, unitRuns, bracketSingle),
        result |-> [ threw |-> FALSE, requirements |-> << >> ],
        done |-> FALSE ] :
        groups \in PatternGroups, unitRuns \in BOOLEAN,
        bracketSingle \in BOOLEAN }

\* parsePatternRequirements is called on the pattern
CompilePattern ==
    /\ compilation.fen # << >>
    /\ ~ compilation.done
    /\ compilation' = [ compilation EXCEPT
                          !.result = parsePatternRequirements(compilation.fen),
                          !.done = TRUE ]
    /\ UNCHANGED << boards, signatures, extraction, rebuild, report,
                    jsVars, goVars, parseVars >>

(***************************************************************************)
(* BatchImporter (Go): ImportWithChannels and importWorker.                *)
(***************************************************************************)
\* NewBatchImporter(db, batchSize, numWorkers)
batchSize == 2

numWorkers == 2

\* make(chan database.ImportProgress, ProgressCap)
ProgressCap == 1

\* NewConcurrentParser(numWorkers): the slots of the parser's semaphore
parserWorkers == 1

Workers == 1..numWorkers

\* what insertGameInTx did for one job: all rows inserted, the INSERT INTO
\* games failed, or an INSERT INTO position_index failed after the game row
InsertOutcomes == { "ok", "gameFailed", "positionFailed" }

\* Progress: &ProgressResponse{...} of a job started with the counters of
\* the importer at imported and failed
NewReport(job, imported, failed) ==
    [ job |-> job, startImported |-> imported, startFailed |-> failed,
      Imported |-> 0, Failed |-> 0, TotalProcessed |-> 0 ]

GoInit ==
    /\ report = NewReport(1, 0, 0)
    /\ ctxDone = FALSE
    /\ streamed = 0
    /\ producer = [ pc |-> "range", game |-> 0 ]
    /\ jobs = [ buf |-> << >>, closed |-> FALSE ]
    /\ errors = [ buf |-> 0, closed |-> FALSE ]
    /\ progressChan = [ buf |-> << >>, closed |-> FALSE ]
    /\ workers = [ w \in Workers |-> [ pc |-> "select", batch |-> << >>,
                                       ret |-> FALSE ] ]
    /\ importStats = 0
    /\ failedStats = 0
    /\ dbRows = {}
    /\ caller = [ pc |-> "ranging", lastErr |-> FALSE ]
    /\ jobStatus = "running"

\* a send on a closed channel panics, and the panic ends the process
Alive == producer.pc # "panicked"

(***************************************************************************)
(* The parse stage.  A game record of the upload is "good", lacks a        *)
(* required header ("missingFields": parseGame returns an error) or has a  *)
(* move the rules reject ("illegalMove": parseGame accepts it, MoveStr     *)
(* rejects the move).  A game is named by its place in the upload.         *)
(***************************************************************************)
Kinds == { "good", "missingFields", "illegalMove" }

\* strings.Split(pgnContent, "\n\n\n"): one text per game, or one text
\* that holds every game
TextSplits ==
    { [ g \in 1..NumGames |-> << g >> ], << [ g \in 1..NumGames |-> g ] >> }

\* ParsePGN: a record parseGame rejects is skipped, the error is always nil
ParsePGN(pgnText) ==
    [ games |-> SelectSeq(pgnText, LAMBDA g : pgnKinds[g] # "missingFields"),
      err |-> FALSE ]

\* ExtractPositions: a move MoveStr rejects is skipped, the positions of
\* the other moves are returned, the error is always nil
ExtractPositions(game) ==
    [ skippedMoves |-> pgnKinds[game] = "illegalMove", err |-> FALSE ]

\* ParsePGNBatch is not called
ParseBatchIdle ==
    parseBatch = [ pgnTexts |-> << >>, numWorkers |-> 0, fed |-> 0,
                   jobs |-> << >>, jobsClosed |-> FALSE, workers |-> << >>,
                   results |-> << >>, resultsClosed |-> FALSE,
                   games |-> << >>, errors |-> << >>, made |-> << >>,
                   pc |-> "idle" ]

\* the upload as processLargeImport starts on it
ParseInit ==
    /\ ParseBatchIdle
    /\ pgnKinds \in [ 1..NumGames -> Kinds ]
    /\ feeder \in { [ pc |-> "send", rest |-> texts ] : texts \in TextSplits }
    /\ pgnChannel = [ buf |-> << >>, closed |-> FALSE ]
    /\ dispatcher = [ pc |-> "range", text |-> << >> ]
    /\ tasks = {}
    /\ gameChannel = [ buf |-> << >>, closed |-> FALSE ]

\* an upload of good games that the parse stage has gone through before
\* the importer takes its first game
ParsedUpload ==
    /\ ParseBatchIdle
    /\ pgnKinds = [ g \in 1..NumGames |-> "good" ]
    /\ feeder = [ pc |-> "done", rest |-> << >> ]
    /\ pgnChannel = [ buf |-> << >>, closed |-> TRUE ]
    /\ dispatcher = [ pc |-> "done", text |-> << >> ]
    /\ tasks = {}
    /\ gameChannel = [ buf |-> [ g \in 1..NumGames |-> g ], closed |-> TRUE ]

\* the same for an upload of good games that holds one game more than the
\* jobs channel has room for
LongUpload ==
    /\ ParseBatchIdle
    /\ pgnKinds = [ g \in 1..NumGames |-> "good" ]
    /\ feeder = [ pc |-> "done", rest |-> << >> ]
    /\ pgnChannel = [ buf |-> << >>, closed |-> TRUE ]
    /\ dispatcher = [ pc |-> "done", text |-> << >> ]
    /\ tasks = {}
    /\ gameChannel = [ buf |-> [ g \in 1..(batchSize + 1) |-> g ],
                       closed |-> TRUE ]

\* case pgnChannel <- pgn
FeederSend ==
    /\ Alive
    /\ feeder.pc = "send"
    /\ feeder.rest # << >>
    /\ pgnChannel' = [ pgnChannel EXCEPT !.buf = Append(@, Head(feeder.rest)) ]
    /\ feeder' = [ feeder EXCEPT !.rest = Tail(@) ]
    /\ UNCHANGED << parseBatch, pgnKinds, dispatcher, tasks, gameChannel, goVars, jsVars,
                    codecVars >>

\* the texts are all sent, or case <-ctx.Done(): return; defer
\* close(pgnChannel)
FeederReturn ==
    /\ Alive
    /\ feeder.pc = "send"
    /\ feeder.rest = << >> \/ ctxDone
    /\ feeder' = [ feeder EXCEPT !.pc = "done" ]
    /\ pgnChannel' = [ pgnChannel EXCEPT !.closed = TRUE ]
    /\ UNCHANGED << parseBatch, pgnKinds, dispatcher, tasks, gameChannel, goVars, jsVars,
                    codecVars >>

\* for pgn := range pgnChannel { wg.Add(1)
DispatcherReceive ==
    /\ Alive
    /\ dispatcher.pc = "range"
    /\ pgnChannel.buf # << >>
    /\ dispatcher' = [ pc |-> "acquire", text |-> Head(pgnChannel.buf) ]
    /\ pgnChannel' = [ pgnChannel EXCEPT !.buf = Tail(@) ]
    /\ UNCHANGED << parseBatch, pgnKinds, feeder, tasks, gameChannel, goVars, jsVars,
                    codecVars >>

\* go func(pgnText), were the dispatcher not to take a slot of the
\* semaphore first
DispatcherSpawnWithoutSemaphore ==
    /\ Alive
    /\ dispatcher.pc = "acquire"
    /\ tasks' = tasks \cup { [ text |-> dispatcher.text,
                               out |-> ParsePGN(dispatcher.text).games ] }
    /\ dispatcher' = [ pc |-> "range", text |-> << >> ]
    /\ UNCHANGED << parseBatch, pgnKinds, feeder, pgnChannel, gameChannel, goVars, jsVars,
                    codecVars >>

\* semaphore <- struct{}{}; go func(pgnText) { games, err := ParsePGN(pgnText)
DispatcherSpawn ==
    /\ Alive
    /\ dispatcher.pc = "acquire"
    /\ Cardinality(tasks) < parserWorkers
    /\ tasks' = tasks \cup { [ text |-> dispatcher.text,
                               out |-> IF ParsePGN(dispatcher.text).err
                                       THEN << >>
                                       ELSE ParsePGN(dispatcher.text).games ] }
    /\ dispatcher' = [ pc |-> "range", text |-> << >> ]
    /\ UNCHANGED << parseBatch, pgnKinds, feeder, pgnChannel, gameChannel, goVars, jsVars,
                    codecVars >>

\* gameChannel <- game
TaskSend(t) ==
    /\ Alive
    /\ t.out # << >>
    /\ gameChannel' = [ gameChannel EXCEPT !.buf = Append(@, Head(t.out)) ]
    /\ tasks' = (tasks \ { t }) \cup { [ t EXCEPT !.out = Tail(@) ] }
    /\ UNCHANGED << parseBatch, pgnKinds, feeder, pgnChannel, dispatcher, goVars, jsVars,
                    codecVars >>

\* defer func() { <-semaphore; wg.Done() }()
TaskExit(t) ==
    /\ Alive
    /\ t.out = << >>
    /\ tasks' = tasks \ { t }
    /\ UNCHANGED << parseBatch, pgnKinds, feeder, pgnChannel, dispatcher, gameChannel,
                    goVars, jsVars, codecVars >>

\* pgnChannel is closed and drained: the range loop ends
DispatcherWait ==
    /\ Alive
    /\ dispatcher.pc = "range"
    /\ pgnChannel.buf = << >>
    /\ pgnChannel.closed
    /\ dispatcher' = [ pc |-> "wait", text |-> << >> ]
    /\ UNCHANGED << parseBatch, pgnKinds, feeder, pgnChannel, tasks, gameChannel, goVars,
                    jsVars, codecVars >>

\* wg.Wait(); defer close(gameChannel)
DispatcherClose ==
    /\ Alive
    /\ dispatcher.pc = "wait"
    /\ tasks = {}
    /\ dispatcher' = [ pc |-> "done", text |-> << >> ]
    /\ gameChannel' = [ gameChannel EXCEPT !.closed = TRUE ]
    /\ UNCHANGED << parseBatch, pgnKinds, feeder, pgnChannel, tasks, goVars, jsVars,
                    codecVars >>

(***************************************************************************)
(* ConcurrentParser.ParsePGNBatch and its workers.  jobs and results have  *)
(* room for len(pgnTexts) items, so no send on them waits.                 *)
(***************************************************************************)
uploadVars ==
    << pgnKinds, feeder, pgnChannel, dispatcher, tasks, gameChannel >>

MaxBatchWorkers == 2

\* the slices of texts ParsePGNBatch is called on: a text holds the game
\* records listed, none for a text without a game
BatchTexts ==
    TextSplits \cup { << << 2 >>, << 1 >> >>, << << 1 >>, << >>, << 2 >> >> }

\* ParsePGNBatch is entered: the channels are made, the workers started,
\* games and errors allocated
ParseBatchStart(pgnTexts, nWorkers) ==
    [ pgnTexts |-> pgnTexts, numWorkers |-> nWorkers, fed |-> 0,
      jobs |-> << >>, jobsClosed |-> FALSE,
      workers |-> [ w \in 1..nWorkers |-> [ pc |-> "range", job |-> 0 ] ],
      results |-> << >>, resultsClosed |-> FALSE,
      games |-> [ i \in DOMAIN pgnTexts |-> NULL ],
      errors |-> [ i \in DOMAIN pgnTexts |-> NULL ],
      made |-> [ i \in DOMAIN pgnTexts |-> 0 ],
      pc |-> "ranging" ]

\* jobs <- ParseJob{PGN: pgn, Index: i}
BatchFeed ==
    /\ parseBatch.pc # "idle"
    /\ parseBatch.fed < Len(parseBatch.pgnTexts)
    /\ parseBatch' = [ parseBatch EXCEPT !.fed = @ + 1,
                                         !.jobs = Append(@, parseBatch.fed + 1) ]
    /\ UNCHANGED << uploadVars, goVars, jsVars, codecVars >>

\* close(jobs)
BatchCloseJobs ==
    /\ parseBatch.pc # "idle"
    /\ parseBatch.fed = Len(parseBatch.pgnTexts)
    /\ ~ parseBatch.jobsClosed
    /\ parseBatch' = [ parseBatch EXCEPT !.jobsClosed = TRUE ]
    /\ UNCHANGED << uploadVars, goVars, jsVars, codecVars >>

\* for job := range jobs
BatchWorkerReceive(w) ==
    /\ parseBatch.workers[w].pc = "range"
    /\ parseBatch.jobs # << >>
    /\ parseBatch' =
         [ parseBatch EXCEPT !.jobs = Tail(@),
                             !.workers[w] = [ pc |-> "parse",
                                              job |-> Head(parseBatch.jobs) ] ]
    /\ UNCHANGED << uploadVars, goVars, jsVars, codecVars >>

\* the result a worker sends for the text at `index`
ResultOf(index) ==
    LET parsed == ParsePGN(parseBatch.pgnTexts[index])
    IN  IF parsed.err
        THEN [ Game |-> NULL, Index |-> index, Error |-> TRUE ]
        ELSE IF Len(parsed.games) > 0
        THEN [ Game |-> parsed.games[1], Index |-> index, Error |-> FALSE ]
        ELSE [ Game |-> NULL, Index |-> index, Error |-> FALSE ]

\* games, err := ParsePGN(job.PGN); results <- ParseResult{...}
BatchWorkerSend(w) ==
    /\ parseBatch.workers[w].pc = "parse"
    /\ LET index == parseBatch.workers[w].job
       IN  parseBatch' =
             [ parseBatch EXCEPT !.results = Append(@, ResultOf(index)),
                                 !.made[index] = @ + 1,
                                 !.workers[w] = [ pc |-> "range", job |-> 0 ] ]
    /\ UNCHANGED << uploadVars, goVars, jsVars, codecVars >>

\* jobs is closed and drained: defer wg.Done()
BatchWorkerExit(w) ==
    /\ parseBatch.workers[w].pc = "range"
    /\ parseBatch.jobs = << >>
    /\ parseBatch.jobsClosed
    /\ parseBatch' = [ parseBatch EXCEPT !.workers[w].pc = "done" ]
    /\ UNCHANGED << uploadVars, goVars, jsVars, codecVars >>

\* wg.Wait(); close(results)
BatchCloseResults ==
    /\ parseBatch.pc # "idle"
    /\ ~ parseBatch.resultsClosed
    /\ \A w \in DOMAIN parseBatch.workers : parseBatch.workers[w].pc = "done"
    /\ parseBatch' = [ parseBatch EXCEPT !.resultsClosed = TRUE ]
    /\ UNCHANGED << uploadVars, goVars, jsVars, codecVars >>

\* the loop body, were a result stored at the place of its arrival
BatchCollectInArrivalOrder ==
    /\ parseBatch.pc = "ranging"
    /\ parseBatch.results # << >>
    /\ LET result == Head(parseBatch.results)
           sent == Cardinality({ i \in DOMAIN parseBatch.made :
                                   parseBatch.made[i] > 0 })
           place == sent - Len(parseBatch.results) + 1
       IN  parseBatch' = [ parseBatch EXCEPT !.results = Tail(@),
                                            !.games[place] = result.Game ]
    /\ UNCHANGED << uploadVars, goVars, jsVars, codecVars >>

\* for result := range results: errors[result.Index] or games[result.Index]
BatchCollect ==
    /\ parseBatch.pc = "ranging"
    /\ parseBatch.results # << >>
    /\ LET result == Head(parseBatch.results)
       IN  parseBatch' =
             IF result.Error
             THEN [ parseBatch EXCEPT !.results = Tail(@),
                                      !.errors[result.Index] = result.Error ]
             ELSE [ parseBatch EXCEPT !.results = Tail(@),
                                      !.games[result.Index] = result.Game ]
    /\ UNCHANGED << uploadVars, goVars, jsVars, codecVars >>

\* results is closed and drained: return games, errors
BatchReturn ==
    /\ parseBatch.pc = "ranging"
    /\ parseBatch.results = << >>
    /\ parseBatch.resultsClosed
    /\ parseBatch' = [ parseBatch EXCEPT !.pc = "returned" ]
    /\ UNCHANGED << uploadVars, goVars, jsVars, codecVars >>

\* for game := range gameStream, select default:
\* positions, _ := ExtractPositions(game.Moves): the job is made whatever
\* ExtractPositions returned
ProducerReceive ==
    /\ Alive
    /\ producer.pc = "range"
    /\ ~ ctxDone
    /\ gameChannel.buf # << >>
    /\ streamed' = streamed + 1
    /\ producer' = [ pc |-> "sendJob", game |-> Head(gameChannel.buf) ]
    /\ gameChannel' = [ gameChannel EXCEPT !.buf = Tail(@) ]
    /\ UNCHANGED << ctxDone, jobs, errors, progressChan, workers, importStats,
                    failedStats, dbRows, caller, jsVars, codecVars, jobStatus,
                    parseStageVars >>

\* the stream is closed and drained, or a game is received and the select
\* takes case <-ctx.Done(): return (the game is dropped); defer close(jobs)
ProducerReturn ==
    /\ Alive
    /\ producer.pc = "range"
    /\ \/ /\ ctxDone
          /\ gameChannel.buf # << >>
          /\ gameChannel' = [ gameChannel EXCEPT !.buf = Tail(@) ]
       \/ /\ gameChannel.buf = << >>
          /\ gameChannel.closed
          /\ UNCHANGED gameChannel
    /\ producer' = [ pc |-> "done", game |-> 0 ]
    /\ jobs' = [ jobs EXCEPT !.closed = TRUE ]
    /\ UNCHANGED << ctxDone, streamed, errors, progressChan, workers,
                    importStats, failedStats, dbRows, caller, jsVars,
                    codecVars, jobStatus, parseStageVars >>

\* jobs <- ImportJob{...}
ProducerSendJob ==
    /\ Alive
    /\ producer.pc = "sendJob"
    /\ Len(jobs.buf) < batchSize
    /\ jobs' = [ jobs EXCEPT !.buf = Append(@, producer.game) ]
    /\ producer' = [ producer EXCEPT !.pc = "sendProgress" ]
    /\ UNCHANGED << ctxDone, streamed, errors, progressChan, workers,
                    importStats, failedStats, dbRows, caller, jsVars,
                    codecVars, parseVars, jobStatus >>

\* progressChan <- ImportProgress{...}
ProducerSendProgress ==
    /\ Alive
    /\ producer.pc = "sendProgress"
    /\ IF progressChan.closed
       THEN /\ producer' = [ producer EXCEPT !.pc = "panicked" ]
            /\ UNCHANGED progressChan
       ELSE /\ Len(progressChan.buf) < ProgressCap
            /\ progressChan' =
                 [ progressChan EXCEPT !.buf =
                     Append(@, [ TotalProcessed |-> importStats + failedStats,
                                 Imported |-> importStats,
                                 Failed |-> failedStats,
                                 CurrentGame |-> producer.game ]) ]
            /\ producer' = [ pc |-> "range", game |-> 0 ]
    /\ UNCHANGED << ctxDone, streamed, jobs, errors, workers, importStats,
                    failedStats, dbRows, caller, jsVars, codecVars, parseVars, jobStatus >>

\* the reader of progressChan takes one message
ConsumeProgress ==
    /\ Alive
    /\ progressChan.buf # << >>
    /\ progressChan' = [ progressChan EXCEPT !.buf = Tail(@) ]
    /\ UNCHANGED << ctxDone, streamed, producer, jobs, errors, workers,
                    importStats, failedStats, dbRows, caller, jsVars,
                    codecVars, parseVars, jobStatus >>

AfterFlush(ret) == IF ret THEN "done" ELSE "select"

\* the rows a committed transaction leaves for one job
RowsOfJob(game, outcome) ==
    IF outcome = "ok" THEN { [ game |-> game, complete |-> TRUE ] }
    ELSE IF outcome = "positionFailed"
    THEN { [ game |-> game, complete |-> FALSE ] }
    ELSE {}

\* the table rows, were the rows of a transaction kept when Commit() fails
RowsAfterTxWithoutRollback(batch, outcome, committed) ==
    dbRows \cup UNION { RowsOfJob(batch[i], outcome[i]) : i \in DOMAIN batch }

\* the table rows after tx.Commit(): the rows the transaction inserted are
\* there when it committed, none of them when it failed
RowsAfterTx(batch, outcome, committed) ==
    IF committed
    THEN dbRows \cup UNION { RowsOfJob(batch[i], outcome[i]) :
                               i \in DOMAIN batch }
    ELSE dbRows

\* flush() of worker w on `batch`; ret: the worker returns after it
flush(w, batch, ret) ==
    IF Len(batch) = 0
    THEN /\ workers' = [ workers EXCEPT ![w] =
                           [ pc |-> AfterFlush(ret), batch |-> << >>,
                             ret |-> FALSE ] ]
         /\ UNCHANGED << importStats, failedStats, dbRows >>
    ELSE \/ \* Begin() failed: errors <- err is next
            /\ workers' = [ workers EXCEPT ![w] =
                              [ pc |-> "sendErr", batch |-> batch,
                                ret |-> ret ] ]
            /\ UNCHANGED << importStats, failedStats, dbRows >>
         \/ \E outcome \in [ DOMAIN batch -> InsertOutcomes ],
               committed \in BOOLEAN :
              LET nFailed == Cardinality({ i \in DOMAIN batch :
                                             outcome[i] # "ok" })
              IN  /\ failedStats' = failedStats + nFailed
                  /\ importStats' = importStats + (Len(batch) - nFailed)
                  /\ dbRows' = RowsAfterTx(batch, outcome, committed)
                  /\ IF committed
                     THEN /\ workers' = [ workers EXCEPT ![w] =
                                            [ pc |-> AfterFlush(ret),
                                              batch |-> << >>,
                                              ret |-> FALSE ] ]
                     ELSE \* Commit() failed: errors <- err is next
                          /\ workers' = [ workers EXCEPT ![w] =
                                            [ pc |-> "sendErr",
                                              batch |-> batch,
                                              ret |-> ret ] ]

\* case <-ctx.Done(): return, were the batch dropped without flush()
WorkerCtxDoneWithoutFlush(w) ==
    /\ Alive
    /\ workers[w].pc = "select"
    /\ ctxDone
    /\ workers' = [ workers EXCEPT ![w] =
                      [ pc |-> "done", batch |-> << >>, ret |-> FALSE ] ]
    /\ UNCHANGED << ctxDone, streamed, producer, jobs, errors, progressChan,
                    importStats, failedStats, dbRows, caller, jsVars,
                    codecVars, parseVars, jobStatus >>

\* case <-ctx.Done(): flush(); return
WorkerCtxDone(w) ==
    /\ Alive
    /\ workers[w].pc = "select"
    /\ ctxDone
    /\ flush(w, workers[w].batch, TRUE)
    /\ UNCHANGED << ctxDone, streamed, producer, jobs, errors, progressChan,
                    caller, jsVars, codecVars, parseVars, jobStatus >>

\* case job, ok := <-jobs with ok: append, flush when the batch is full
WorkerReceive(w) ==
    /\ Alive
    /\ workers[w].pc = "select"
    /\ jobs.buf # << >>
    /\ jobs' = [ jobs EXCEPT !.buf = Tail(@) ]
    /\ LET batch == Append(workers[w].batch, Head(jobs.buf))
       IN  IF Len(batch) >= batchSize
           THEN flush(w, batch, FALSE)
           ELSE /\ workers' = [ workers EXCEPT ![w].batch = batch ]
                /\ UNCHANGED << importStats, failedStats, dbRows >>
    /\ UNCHANGED << ctxDone, streamed, producer, errors, progressChan,
                    caller, jsVars, codecVars, parseVars, jobStatus >>

\* case job, ok := <-jobs with !ok: return, were the batch not flushed
WorkerJobsClosedWithoutFlush(w) ==
    /\ Alive
    /\ workers[w].pc = "select"
    /\ jobs.buf = << >>
    /\ jobs.closed
    /\ workers' = [ workers EXCEPT ![w] =
                      [ pc |-> "done", batch |-> << >>, ret |-> FALSE ] ]
    /\ UNCHANGED << ctxDone, streamed, producer, jobs, errors, progressChan,
                    importStats, failedStats, dbRows, caller, jsVars,
                    codecVars, parseVars, jobStatus >>

\* case job, ok := <-jobs with !ok: flush(); return
WorkerJobsClosed(w) ==
    /\ Alive
    /\ workers[w].pc = "select"
    /\ jobs.buf = << >>
    /\ jobs.closed
    /\ flush(w, workers[w].batch, TRUE)
    /\ UNCHANGED << ctxDone, streamed, producer, jobs, errors, progressChan,
                    caller, jsVars, codecVars, parseVars, jobStatus >>

\* case <-ticker.C, were the tick not to flush
WorkerTickWithoutFlush(w) ==
    /\ Alive
    /\ workers[w].pc = "select"
    /\ workers[w].batch # << >>
    /\ UNCHANGED << goVars, jsVars, codecVars, parseVars >>

\* case <-ticker.C: flush() (of a batch that holds something)
WorkerTick(w) ==
    /\ Alive
    /\ workers[w].pc = "select"
    /\ workers[w].batch # << >>
    /\ flush(w, workers[w].batch, FALSE)
    /\ UNCHANGED << ctxDone, streamed, producer, jobs, errors, progressChan,
                    caller, jsVars, codecVars, parseVars, jobStatus >>

\* errors <- err, then failedStats.Add(len(batch)) and batch = batch[:0]
WorkerSendErr(w) ==
    /\ Alive
    /\ workers[w].pc = "sendErr"
    /\ errors.buf < numWorkers
    /\ errors' = [ errors EXCEPT !.buf = @ + 1 ]
    /\ failedStats' = failedStats + Len(workers[w].batch)
    /\ workers' = [ workers EXCEPT ![w] =
                      [ pc |-> AfterFlush(workers[w].ret), batch |-> << >>,
                        ret |-> FALSE ] ]
    /\ UNCHANGED << ctxDone, streamed, producer, jobs, progressChan,
                    importStats, dbRows, caller, jsVars, codecVars, parseVars, jobStatus >>

\* wg.Wait(); close(errors)
WaitAndClose ==
    /\ Alive
    /\ ~ errors.closed
    /\ \A w \in Workers : workers[w].pc = "done"
    /\ errors' = [ errors EXCEPT !.closed = TRUE ]
    /\ UNCHANGED << ctxDone, streamed, producer, jobs, progressChan, workers,
                    importStats, failedStats, dbRows, caller, jsVars,
                    codecVars, parseVars, jobStatus >>

\* for err := range errors: lastErr = err
CallerReceiveErr ==
    /\ Alive
    /\ caller.pc = "ranging"
    /\ errors.buf > 0
    /\ errors' = [ errors EXCEPT !.buf = @ - 1 ]
    /\ caller' = [ caller EXCEPT !.lastErr = TRUE ]
    /\ UNCHANGED << ctxDone, streamed, producer, jobs, progressChan, workers,
                    importStats, failedStats, dbRows, jsVars, codecVars, parseVars, jobStatus >>

\* errors is closed and drained: close(progressChan); return lastErr
CallerReturn ==
    /\ Alive
    /\ caller.pc = "ranging"
    /\ errors.buf = 0
    /\ errors.closed
    /\ progressChan' = [ progressChan EXCEPT !.closed = TRUE ]
    /\ caller' = [ caller EXCEPT !.pc = "returned" ]
    /\ UNCHANGED << ctxDone, streamed, producer, jobs, errors, workers,
                    importStats, failedStats, dbRows, jsVars, codecVars, parseVars, jobStatus >>

\* processLargeImport after ImportWithChannels returned: job.Status is
\* "failed" when it returned an error
JobRecordResult ==
    /\ Alive
    /\ caller.pc = "returned"
    /\ jobStatus' = IF caller.lastErr THEN "failed" ELSE jobStatus
    /\ caller' = [ caller EXCEPT !.pc = "stats" ]
    /\ UNCHANGED << ctxDone, streamed, producer, jobs, errors, progressChan,
                    workers, importStats, failedStats, dbRows, jsVars,
                    codecVars, parseVars >>

\* GetStats()
GetStats == << importStats, failedStats >>

\* imported, failed := bh.importer.GetStats() and the three assignments
\* to job.Progress; processLargeImport returns: the deferred
\* job.Status = "completed"
JobEnd ==
    /\ Alive
    /\ caller.pc = "stats"
    /\ report' = [ report EXCEPT !.Imported = GetStats[1],
                                 !.Failed = GetStats[2],
                                 !.TotalProcessed = GetStats[1] + GetStats[2] ]
    /\ jobStatus' = "completed"
    /\ caller' = [ caller EXCEPT !.pc = "ended" ]
    /\ UNCHANGED << ctxDone, streamed, producer, jobs, errors, progressChan,
                    workers, importStats, failedStats, dbRows, jsVars,
                    boards, signatures, extraction, compilation, rebuild,
                    parseVars >>

MaxJobs == 2

\* ImportLargeFile on the same BatchHandler once the job before has ended:
\* a new job, context and progress channel, processLargeImport started on
\* the upload, bh.importer and its counters as they are
StartNextJob ==
    /\ caller.pc = "ended"
    /\ producer.pc = "done"
    /\ report.job < MaxJobs
    /\ report' = NewReport(report.job + 1, importStats, failedStats)
    /\ jobStatus' = "running"
    /\ ctxDone' = FALSE
    /\ streamed' = 0
    /\ producer' = [ pc |-> "range", game |-> 0 ]
    /\ jobs' = [ buf |-> << >>, closed |-> FALSE ]
    /\ errors' = [ buf |-> 0, closed |-> FALSE ]
    /\ progressChan' = [ buf |-> << >>, closed |-> FALSE ]
    /\ workers' = [ w \in Workers |-> [ pc |-> "select", batch |-> << >>,
                                        ret |-> FALSE ] ]
    /\ caller' = [ pc |-> "ranging", lastErr |-> FALSE ]
    /\ gameChannel' = [ buf |-> [ g \in 1..NumGames |-> g ], closed |-> TRUE ]
    /\ UNCHANGED << importStats, failedStats, dbRows, jsVars, boards,
                    signatures, extraction, compilation, rebuild,
                    parseStageVars >>

\* CancelImport: if job.Status == "running", job.CancelFunc() and
\* job.Status = "cancelled"
Cancel ==
    /\ Alive
    /\ jobStatus = "running"
    /\ ctxDone' = TRUE
    /\ jobStatus' = "cancelled"
    /\ UNCHANGED << streamed, producer, jobs, errors, progressChan, workers,
                    importStats, failedStats, dbRows, caller, jsVars,
                    codecVars, parseVars >>

(***************************************************************************)
(* The specifications.                                                     *)
(***************************************************************************)
NoSearch == SearchResponse("", << >>, 0, 0, 0, 0, {})

\* no request for a rebuild of the piece rows is being handled
RebuildIdle ==
    rebuild = [ pc |-> "idle", total |-> 0, offset |-> 0, processed |-> 0 ]

StoreInit ==
    /\ RebuildIdle
    /\ games = {}
    /\ positions = {}
    /\ piece_locations = EmptyBag
    /\ seqGames = 0
    /\ seqPositions = 0
    /\ zobristSeed = 1
    /\ lastSearch = NoSearch

Init ==
    /\ StoreInit
    /\ CodecIdle
    /\ GoInit
    /\ ParsedUpload

\* the handlers that write the store
Next ==
    \/ \E moves \in MoveTexts : ImportGame(moves)
    \/ \E id \in 1..MaxGames : DeleteGame(id)
    \/ IndexRebuild
    \/ IndexClear
    \/ IndexFix
    \/ PiecesRebuild

vars == << games, positions, piece_locations, seqGames, seqPositions,
           zobristSeed, lastSearch, boards, signatures, extraction, compilation,
           ctxDone, streamed,
           producer, jobs, errors, progressChan, workers, importStats,
           failedStats, dbRows, caller, jobStatus, pgnKinds, feeder,
           pgnChannel, dispatcher, tasks, gameChannel, parseBatch, rebuild,
           report >>

Spec == Init /\ [][Next]_vars

\* the patterns a search is asked for
SearchPatterns ==
    { PatD4P, PatEmpty, PatOverfull, PatUnterminated, PatShort }

\* imports, the piece index rebuilt, and pattern searches
SearchNext ==
    \/ \E moves \in MoveTexts : ImportGame(moves)
    \/ PiecesRebuild
    \/ \E fen \in SearchPatterns, page \in 1..MaxLimit,
          pageSize \in 1..MaxLimit : Search(fen, page, pageSize)

SearchSpec == Init /\ [][SearchNext]_vars

\* the positions a zobrist search is asked for
ZobristInputs == { FenStart, FenD4, FenExD5 }

\* imports, restarts of the server, and zobrist searches
RestartNext ==
    \/ \E moves \in MoveTexts : ImportGame(moves)
    \/ Restart
    \/ \E fen \in ZobristInputs, page \in 1..MaxLimit,
          pageSize \in 1..MaxLimit : SearchZobrist(fen, page, pageSize)

RestartSpec == Init /\ [][RestartNext]_vars

CodecInit ==
    /\ StoreInit
    /\ boards \in BoardInputs \X BoardInputs
    /\ signatures = << >>
    /\ ExtractIdle
    /\ CompileIdle
    /\ GoInit
    /\ ParsedUpload

CodecNext == ComputeSignatures

CodecSpec == CodecInit /\ [][CodecNext]_vars

ExtractInit ==
    /\ StoreInit
    /\ boards = << >>
    /\ signatures = << >>
    /\ extraction \in ExtractInputs
    /\ CompileIdle
    /\ GoInit
    /\ ParsedUpload

ExtractNext == ExtractPieces

ExtractSpec == ExtractInit /\ [][ExtractNext]_vars

CompileInit ==
    /\ StoreInit
    /\ boards = << >>
    /\ signatures = << >>
    /\ ExtractIdle
    /\ compilation \in CompileInputs
    /\ GoInit
    /\ ParsedUpload

CompileNext == CompilePattern

CompileSpec == CompileInit /\ [][CompileNext]_vars

\* game imports and deletions while a rebuild of the piece rows is being
\* handled
RebuildNext ==
    \/ \E moves \in MoveTexts : ImportGame(moves)
    \/ \E id \in 1..MaxGames : DeleteGame(id)
    \/ RebuildCount
    \/ RebuildDelete
    \/ RebuildBatch
    \/ RebuildRespond

RebuildSpec == Init /\ [][RebuildNext]_vars

\* what a rank of a pattern is written from: runs of empty squares, a
\* piece, a bracket group and a bracket that is not closed
RankTokens ==
    { << "8" >>, << "4" >>, << "r" >>, << "[", "P", "|", "N", "]" >>,
      << "[", "P" >> }

\* the ranks of one or two tokens, those that cover more than 8 squares
\* included
RankTexts == RankTokens \cup { a \o b : a \in RankTokens, b \in RankTokens }

\* any pattern: one rank of RankTexts among empty ranks
AnyPatternInputs ==
    { [ groups |-> << >>,
        fen |-> RankPattern(rank, text),
        result |-> [ threw |-> FALSE, requirements |-> << >> ],
        done |-> FALSE ] : rank \in 0..7, text \in RankTexts }

AnyPatternInit ==
    /\ StoreInit
    /\ boards = << >>
    /\ signatures = << >>
    /\ ExtractIdle
    /\ compilation \in AnyPatternInputs
    /\ GoInit
    /\ ParsedUpload

AnyPatternNext == CompilePattern

AnyPatternSpec == AnyPatternInit /\ [][AnyPatternNext]_vars

ImportNext ==
    \/ ProducerReceive
    \/ ProducerReturn
    \/ ProducerSendJob
    \/ ProducerSendProgress
    \/ ConsumeProgress
    \/ \E w \in Workers : WorkerCtxDone(w)
    \/ \E w \in Workers : WorkerReceive(w)
    \/ \E w \in Workers : WorkerJobsClosed(w)
    \/ \E w \in Workers : WorkerTick(w)
    \/ \E w \in Workers : WorkerSendErr(w)
    \/ WaitAndClose
    \/ CallerReceiveErr
    \/ CallerReturn
    \/ JobRecordResult
    \/ JobEnd
    \/ Cancel

ImportSpec == Init /\ [][ImportNext]_vars

\* the jobs of one BatchHandler, one after the other
JobsNext ==
    \/ ImportNext
    \/ StartNextJob

JobsSpec == Init /\ [][JobsNext]_vars

\* processLargeImport on an upload: the parse stage and the import run
\* side by side
PipelineInit ==
    /\ StoreInit
    /\ CodecIdle
    /\ GoInit
    /\ ParseInit

PipelineNext ==
    \/ FeederSend
    \/ FeederReturn
    \/ DispatcherReceive
    \/ DispatcherSpawn
    \/ \E t \in tasks : TaskSend(t)
    \/ \E t \in tasks : TaskExit(t)
    \/ DispatcherWait
    \/ DispatcherClose
    \/ ProducerReceive
    \/ ProducerReturn
    \/ ProducerSendJob
    \/ ProducerSendProgress
    \/ ConsumeProgress
    \/ \E w \in Workers : WorkerCtxDone(w)
    \/ \E w \in Workers : WorkerReceive(w)
    \/ \E w \in Workers : WorkerJobsClosed(w)
    \/ \E w \in Workers : WorkerTick(w)
    \/ \E w \in Workers : WorkerSendErr(w)
    \/ WaitAndClose
    \/ CallerReceiveErr
    \/ CallerReturn
    \/ JobRecordResult
    \/ JobEnd
    \/ Cancel

PipelineSpec == PipelineInit /\ [][PipelineNext]_vars

\* the parse stage alone, its games left in gameChannel by a consumer that
\* takes its time
ParseNext ==
    \/ FeederSend
    \/ FeederReturn
    \/ DispatcherReceive
    \/ DispatcherSpawn
    \/ \E t \in tasks : TaskSend(t)
    \/ \E t \in tasks : TaskExit(t)
    \/ DispatcherWait
    \/ DispatcherClose
    \/ Cancel

ParseSpec == PipelineInit /\ [][ParseNext]_vars

\* one call of ParsePGNBatch
BatchInit ==
    /\ StoreInit
    /\ CodecIdle
    /\ GoInit
    /\ pgnKinds \in [ 1..NumGames -> Kinds ]
    /\ feeder = [ pc |-> "done", rest |-> << >> ]
    /\ pgnChannel = [ buf |-> << >>, closed |-> TRUE ]
    /\ dispatcher = [ pc |-> "done", text |-> << >> ]
    /\ tasks = {}
    /\ gameChannel = [ buf |-> << >>, closed |-> TRUE ]
    /\ parseBatch \in { ParseBatchStart(pgnTexts, nWorkers) :
                           pgnTexts \in BatchTexts,
                           nWorkers \in 1..MaxBatchWorkers }

BatchNext ==
    \/ BatchFeed
    \/ BatchCloseJobs
    \/ \E w \in DOMAIN parseBatch.workers : BatchWorkerReceive(w)
    \/ \E w \in DOMAIN parseBatch.workers : BatchWorkerSend(w)
    \/ \E w \in DOMAIN parseBatch.workers : BatchWorkerExit(w)
    \/ BatchCloseResults
    \/ BatchCollect
    \/ BatchReturn

\* every goroutine of the call is scheduled again and again
BatchFairness ==
    /\ WF_vars(BatchFeed)
    /\ WF_vars(BatchCloseJobs)
    /\ \A w \in 1..MaxBatchWorkers :
          /\ WF_vars(w \in DOMAIN parseBatch.workers /\ BatchWorkerReceive(w))
          /\ WF_vars(w \in DOMAIN parseBatch.workers /\ BatchWorkerSend(w))
          /\ WF_vars(w \in DOMAIN parseBatch.workers /\ BatchWorkerExit(w))
    /\ WF_vars(BatchCloseResults)
    /\ WF_vars(BatchCollect)
    /\ WF_vars(BatchReturn)

BatchSpec == BatchInit /\ [][BatchNext]_vars /\ BatchFairness

(***************************************************************************)
(* The properties.                                                         *)
(***************************************************************************)
AllPatterns ==
    { PatD4P, PatD5p, PatD5P, PatD5pP, PatD4PN, PatD5PE4P, PatD5pPE4PN,
      PatEmpty, PatOverfull, PatUnterminated, PatShort }

\* the patterns that compile to at least one constraint
ConstraintPatterns ==
    { fen \in AllPatterns :
        /\ ~ parsePatternRequirements(fen).threw
        /\ Len(parsePatternRequirements(fen).requirements) >= 1 }

\* the well-formed ones among them: every rank covers exactly 8 squares and
\* every '[' is closed
WellFormedPatterns ==
    { PatD4P, PatD5p, PatD5P, PatD5pP, PatD4PN, PatD5PE4P, PatD5pPE4PN }

Limits == 1..MaxLimit

Offsets == 0..MaxGames

RequirementsOf(fen) == parsePatternRequirements(fen).requirements

\* the existing games with at least one matching position
GamesWithMatch(fen) ==
    { g.id : g \in { h \in games :
                       \E p \in MatchingPositions(RequirementsOf(fen)) :
                          p.game_id = h.id } }

\* the result row of a matching position
RowOf(p) ==
    [ id |-> p.game_id, move_number |-> p.move_number, move |-> p.move,
      position_id |-> p.id ]

\* the piece_locations rows that carry position id `id`, as (square, piece)
PieceRowsOf(id) ==
    { << r[2], r[3] >> : r \in { q \in DOMAIN piece_locations : q[1] = id } }

\* the (square, piece) pairs decoded from a board
DecodedOf(fenPosition) ==
    { << pc.square, pc.piece >> :
        pc \in Range(extractPieceLocations(fenPosition)) }

\* the piece_locations rows of position row p are exactly its decoded squares
RowsExact(p) ==
    /\ PieceRowsOf(p.id) = DecodedOf(p.fen_position)
    /\ \A r \in DOMAIN piece_locations :
          r[1] = p.id => piece_locations[r] = 1

\* C1: in every store state, for every pattern with a constraint, limit L
\* and offset O, the result query returns exactly the matching positions of
\* the games ranked O+1..O+L among the games with a match, by descending id.
C1_PageIsRankedSlice ==
    \A fen \in WellFormedPatterns, L \in Limits, O \in Offsets :
       LET page == Range(LimitOffset(SortDesc(GamesWithMatch(fen)), L, O))
       IN  buildOptimizedPatternQuery(fen, L, O).rows =
             { RowOf(p) : p \in { q \in MatchingPositions(RequirementsOf(fen)) :
                                    q.game_id \in page } }

\* C2: in every store state the count query's total is the same for every
\* limit and offset and is the number of distinct games the result query
\* returns over all pages.
C2_TotalIsGamesReturned ==
    \A fen \in WellFormedPatterns, L \in Limits :
       LET total == buildOptimizedPatternQuery(fen, L, 0).total
           collected ==
             UNION { { row.id : row \in
                         buildOptimizedPatternQuery(fen, L, k * L).rows } :
                       k \in 0..MaxGames }
       IN  /\ \A O \in Offsets :
                buildOptimizedPatternQuery(fen, L, O).total = total
           /\ total = Cardinality(collected)

\* C3: for every pattern that compiles to a constraint and every stored
\* position whose piece rows are exactly its decoded squares, the position
\* is in the intersection query iff searchPositionPattern matches its board.
C3_IndexAgreesWithMatcher ==
    \A fen \in ConstraintPatterns, p \in positions :
       RowsExact(p) =>
         ( p.id \in IntersectQuery(RequirementsOf(fen),
                                   Len(RequirementsOf(fen)))
             <=> searchPositionPattern(fen, p.fen) )

\* the same over the well-formed patterns only
IndexAgreesOnWellFormed ==
    \A fen \in WellFormedPatterns, p \in positions :
       RowsExact(p) =>
         ( p.id \in IntersectQuery(RequirementsOf(fen),
                                   Len(RequirementsOf(fen)))
             <=> searchPositionPattern(fen, p.fen) )

\* C7: after indexGamePositions has run for a game, every position row it
\* inserted has exactly the piece rows decoded from its board, each carrying
\* that position row's id.
C7_ImportedRowsCarryPositionId ==
    [][ seqGames' = seqGames + 1 =>
          \A p \in positions' \ positions : RowsExact(p)' ]_vars

\* C8: a fingerprint stored at ingestion equals the fingerprint
\* computeZobristHash gives for the same position now, restarts included.
C8_StoredFingerprintStillComputed ==
    \A p \in positions :
       p.zobrist_hash = computeZobristHash(zobristKeys, p.fen)

\* the squares and symbols the alternative groups are built from:
\* << rank index, file index >> of d5, d4 and e4
GroupSquares == { << 3, 3 >>, << 4, 3 >>, << 4, 4 >> }

GroupSymbols == { "P", "p", "N" }

\* the total a pattern search reports for `group` alone on square sq
TotalFor(sq, group) ==
    buildOptimizedPatternQuery(GroupPattern(sq[1], sq[2], group), 1, 0).total

C5_EmptyPatternMatchesNothing ==
    ( /\ lastSearch.searchType = "pattern"
      /\ lastSearch.status = 200
      /\ Len(RequirementsOf(lastSearch.fen)) = 0 )
      => /\ lastSearch.rows = {}
         /\ lastSearch.totalGames = 0
         /\ \A L \in Limits, O \in Offsets :
               /\ buildOptimizedPatternQuery(lastSearch.fen, L, O).rows = {}
               /\ buildOptimizedPatternQuery(lastSearch.fen, L, O).total = 0

\* the empty pattern was searched while positions with piece rows of their
\* own are indexed
C5_Witness ==
    /\ lastSearch.searchType = "pattern"
    /\ lastSearch.fen = PatEmpty
    /\ lastSearch.status = 200
    /\ \E p \in positions : /\ RowsExact(p)
                            /\ \E g \in games : g.id = p.game_id

\* C6: a search for a pattern with an unterminated '[' or with a rank that
\* covers more than 8 squares reports an error and no result.
C6_MalformedPatternIsError ==
    ( /\ lastSearch.searchType = "pattern"
      /\ lastSearch.fen \in { PatOverfull, PatUnterminated } )
      => /\ parsePatternRequirements(lastSearch.fen).threw
         /\ ~ lastSearch.success
         /\ lastSearch.status # 200

\* C9: for two boards whose per-symbol counts are between 0 and MaxCount,
\* the material signatures are equal iff the twelve counts are equal.
C9_SignatureEqualIffCountsEqual ==
    signatures # << >> =>
      ( signatures[1] = signatures[2]
          <=> CountVector(boards[1]) = CountVector(boards[2]) )

\* C10: in every state of ImportWithChannels on a stream of NumGames games,
\* cancelled or not, with or without Begin and Commit failures,
\* importStats + failedStats <= NumGames.
C10_CountedAtMostStreamed ==
    GetStats[1] + GetStats[2] <= NumGames

\* the batch worker w flushes in the step, were it one of its flushes: its
\* local batch and the job it takes from the channel in the same step
FlushedBatch(w) ==
    IF Len(jobs'.buf) < Len(jobs.buf)
    THEN Append(workers[w].batch, Head(jobs.buf))
    ELSE workers[w].batch

\* C11: one flush of a batch of k games whose transaction fails adds k to
\* failed and nothing to imported (the k are added with the error that is
\* sent, nothing before); one whose transaction commits adds k in all.
C11_FlushCountsBatchOnce ==
    [][ \A w \in Workers :
          /\ ( workers[w].pc = "select" /\ workers'[w].pc = "sendErr" )
               => /\ importStats' = importStats
                  /\ failedStats' = failedStats
          /\ ( workers[w].pc = "sendErr" /\ workers'[w].pc # "sendErr" )
               => /\ importStats' = importStats
                  /\ failedStats' = failedStats + Len(workers[w].batch)
          /\ ( /\ workers[w].pc = "select"
               /\ workers'[w].pc # "sendErr"
               /\ workers[w].batch # << >>
               /\ workers'[w].batch = << >> )
               => importStats' + failedStats' =
                    importStats + failedStats + Len(FlushedBatch(w)) ]_vars

\* the step is worker w committing the transaction of a flush
CommitsBatch(w) ==
    /\ workers[w].pc = "select"
    /\ workers'[w].pc # "sendErr"
    /\ workers[w].batch # << >>
    /\ workers'[w].batch = << >>

\* the games that get their first row in the step
GamesAdded == { r.game : r \in dbRows' \ dbRows }

\* C12: a batch reaches the store as a unit.  Rows appear only in the step
\* in which a worker's transaction commits, only for games of that batch,
\* and for every game of it that was counted imported; a flush whose
\* transaction does not commit (Begin or Commit failed) leaves the store as
\* it was, before and after cancellation; no row is ever taken back.
C12_BatchReachesStoreAtomically ==
    [][ /\ dbRows \subseteq dbRows'
        /\ dbRows' # dbRows =>
             \E w \in Workers :
                /\ CommitsBatch(w)
                /\ GamesAdded \subseteq Range(FlushedBatch(w))
                /\ Cardinality(GamesAdded) >= importStats' - importStats
        /\ \A w \in Workers :
             ( /\ workers'[w] # workers[w]
               /\ workers[w].pc = "sendErr" \/ workers'[w].pc = "sendErr" )
               => dbRows' = dbRows ]_vars

\* after cancellation one batch is in the store and a worker holds a batch
\* whose transaction failed, with games counted imported in it
C12_Witness ==
    /\ ctxDone
    /\ dbRows # {}
    /\ importStats > Cardinality(dbRows)
    /\ \E w \in Workers : /\ workers[w].pc = "sendErr"
                          /\ workers[w].batch # << >>

\* every goroutine of the import that can run does run; nothing makes the
\* reader of progressChan take a message, and nobody has to cancel
ImportFairness ==
    /\ WF_vars(ProducerReceive)
    /\ WF_vars(ProducerReturn)
    /\ WF_vars(ProducerSendJob)
    /\ WF_vars(ProducerSendProgress)
    /\ \A w \in Workers : /\ WF_vars(WorkerCtxDone(w))
                          /\ WF_vars(WorkerReceive(w))
                          /\ WF_vars(WorkerJobsClosed(w))
                          /\ WF_vars(WorkerTick(w))
                          /\ WF_vars(WorkerSendErr(w))
    /\ WF_vars(WaitAndClose)
    /\ WF_vars(CallerReceiveErr)
    /\ WF_vars(CallerReturn)
    /\ WF_vars(JobRecordResult)
    /\ WF_vars(JobEnd)

\* the import with a reader of progressChan that may stop reading
ImportLiveSpec == Init /\ [][ImportNext]_vars /\ ImportFairness

\* C13: with a reader that reads slowly or not at all, a progress send of
\* the producer always ends, and ImportWithChannels returns.
C13_ProgressSendNeverBlocksImport ==
    /\ [](producer.pc = "sendProgress" => <>(producer.pc # "sendProgress"))
    /\ <>(caller.pc = "returned")

\* C14: when the job has ended, job.Status is "cancelled" if CancelImport
\* cancelled it while it ran, "failed" if ImportWithChannels returned an
\* error, and "completed" otherwise.
C14_FinalStatusTellsOutcome ==
    caller.pc = "ended" =>
      jobStatus = IF ctxDone THEN "cancelled"
                  ELSE IF caller.lastErr THEN "failed"
                  ELSE "completed"

\* the games a worker has taken from the jobs channel
ReceivedByWorkers ==
    { g \in 1..streamed :
        /\ g \notin Range(jobs.buf)
        /\ ~ ( producer.pc = "sendJob" /\ producer.game = g ) }

WorkersDone == \A w \in Workers : workers[w].pc = "done"

\* C15: once the context is cancelled every worker terminates and
\* ImportWithChannels returns; when the workers have terminated every game
\* a worker had taken is committed or counted failed (its batch was
\* flushed); no committed row is ever taken back.
C15_CancelFlushesAndReturns ==
    /\ ctxDone ~> ( WorkersDone /\ caller.pc # "ranging" )
    /\ []( WorkersDone =>
             /\ \A w \in Workers : workers[w].batch = << >>
             /\ importStats + failedStats >= Cardinality(ReceivedByWorkers) )
    /\ [][ dbRows \subseteq dbRows' ]_vars

\* a cancelled import has returned: a batch is in the store, a job is left
\* in the channel
C15_Witness ==
    /\ ctxDone
    /\ WorkersDone
    /\ caller.pc # "ranging"
    /\ dbRows # {}
    /\ jobs.buf # << >>

\* C16: after DELETE /api/games/:id no position row references the deleted
\* game and no piece-location row references one of its positions.
C16_DeleteCascades ==
    [][ \A g \in games \ games' :
          /\ \A p \in positions' : p.game_id # g.id
          /\ \A p \in positions :
                p.game_id = g.id =>
                  \A r \in DOMAIN piece_locations' : r[1] # p.id ]_vars


\* the game records of the upload that are not good
Malformed == { g \in 1..NumGames : pgnKinds[g] # "good" }

\* the games the store holds as imported
ImportedGames == { r.game : r \in { q \in dbRows : q.complete } }

\* processLargeImport has run to its end without cancel or panic
UploadProcessed == caller.pc = "ended" /\ ~ ctxDone /\ Alive

\* C17: once an upload is processed, every good game of it was parsed and
\* handed to the importer (it is imported or counted failed), no malformed
\* game is held as imported, and every malformed game is counted in the
\* failed total unless the import returned an error.
C17_MalformedGameIsReported ==
    UploadProcessed =>
      /\ importStats + failedStats >= NumGames - Cardinality(Malformed)
      /\ Malformed \cap ImportedGames = {}
      /\ caller.lastErr \/ failedStats >= Cardinality(Malformed)


\* C18: on a well-formed board of 8 ranks extractPieceLocations returns one
\* pair per piece, in the order written, with the square the piece stands
\* on (a1 = 0, h1 = 7, a8 = 56, h8 = 63) and its symbol; empty squares give
\* no pair; the squares returned are distinct and lie in 0..63.
C18_OnePairPerPiece ==
    extraction.done =>
      LET board == extraction.board
          pieces == extraction.pieces
      IN  /\ Len(pieces) = Cardinality(DOMAIN board)
          /\ \A i \in DOMAIN pieces :
                /\ pieces[i].square \in 0..63
                /\ pieces[i].square \in DOMAIN board
                /\ pieces[i].piece = board[pieces[i].square]
          /\ \A i, j \in DOMAIN pieces :
                i # j => pieces[i].square # pieces[j].square
          /\ \A i, j \in DOMAIN pieces :
                i < j =>
                  \/ pieces[i].square \div 8 > pieces[j].square \div 8
                  \/ /\ pieces[i].square \div 8 = pieces[j].square \div 8
                     /\ pieces[i].square < pieces[j].square

\* pieces on a1, h1, a8 and h8 behind skip runs were extracted
C18_Witness ==
    /\ extraction.done
    /\ DOMAIN extraction.board = { 0, 7, 56 }
    /\ Len(extraction.pieces) = 3
    /\ extraction.pieces[1].square = 56
    /\ extraction.pieces[3].square = 7


\* WHERE square = ? AND piece IN (...allowedPieces), for every requirement,
\* on the rows of one position
PiecesSatisfy(pieces, requirements) ==
    \A n \in DOMAIN requirements :
      \E i \in DOMAIN pieces :
        /\ pieces[i].square = requirements[n].square
        /\ << pieces[i].piece >> \in Range(requirements[n].allowedPieces)

\* a full board: on each constrained square alternative number `pick` (the
\* last one when there are fewer), a queen on every other square
CrowdedBoard(groups, pick) ==
    [ square \in 0..63 |->
        IF square \in DOMAIN groups
        THEN LET alternatives == groups[square]
             IN  IF pick <= Len(alternatives) THEN alternatives[pick][1]
                 ELSE alternatives[Len(alternatives)][1]
        ELSE "q" ]

\* C19: on a well-formed pattern parsePatternRequirements returns, in scan
\* order, one constraint per bare symbol or bracket group and none for a
\* digit; the constraint of a group holds its alternatives and stands on
\* the square (7 - rank) * 8 + file, the file advancing by one per symbol
\* or group; a position with pieces on the squares the digits skip still
\* satisfies the constraints.
C19_OneConstraintPerGroup ==
    compilation.done =>
      LET groups == compilation.groups
          requirements == compilation.result.requirements
      IN  /\ ~ compilation.result.threw
          /\ Len(requirements) = Cardinality(DOMAIN groups)
          /\ \A n \in DOMAIN requirements :
                /\ requirements[n].square \in DOMAIN groups
                /\ requirements[n].allowedPieces =
                     groups[requirements[n].square]
          /\ \A m, n \in DOMAIN requirements :
                m < n =>
                  \/ requirements[m].square \div 8 > requirements[n].square \div 8
                  \/ /\ requirements[m].square \div 8
                          = requirements[n].square \div 8
                     /\ requirements[m].square < requirements[n].square
          /\ \A pick \in 1..3 :
                PiecesSatisfy(
                  extractPieceLocations(
                    EncodeBoard(CrowdedBoard(groups, pick), FALSE)),
                  requirements)

\* a group of three alternatives followed on its rank by a second
\* constraint was compiled
C19_Witness ==
    /\ compilation.done
    /\ DOMAIN compilation.groups = { 27, 28 }
    /\ Len(compilation.groups[27]) = 3
    /\ Len(compilation.result.requirements) = 2
    /\ compilation.result.requirements[2].square = 28


\* the ids of the games that have no position row
UnindexedIds ==
    { g.id : g \in { h \in games : \A p \in positions : p.game_id # h.id } }

\* C20: a run of the incremental fix writes position rows for the games
\* that had none and for no other game, one row per position of the game;
\* it removes and changes no position row and no piece row; after it a
\* second run finds no game to index (fixed = 0).
C20_FixIndexesMissingGamesOnce ==
    [][ IndexFix =>
          /\ { p.game_id : p \in positions' \ positions } = UnindexedIds
          /\ \A g \in games :
                g.id \in UnindexedIds =>
                  Cardinality({ p \in positions' : p.game_id = g.id })
                    = Len(extractAllPositions(g.moves))
          /\ positions \subseteq positions'
          /\ piece_locations \sqsubseteq piece_locations'
          /\ games' = games
          /\ FixResponse'.fixed = 0 ]_vars

\* the fix indexed game 1 after game 2 was indexed, and every game has
\* position rows
C20_Witness ==
    /\ \E p, q \in positions :
          /\ p.game_id = 1
          /\ q.game_id = 2
          /\ p.id > q.id
    /\ \A g \in games : \E p \in positions : p.game_id = g.id
    /\ Cardinality(games) = 2


\* C21: the local batch of a worker never holds more than batchSize jobs
\* and is below batchSize whenever the worker waits in its select; a job
\* taken into the batch is flushed in the end, also when no further job
\* arrives.
C21_BatchFlushedWhenFullOrOnTick ==
    /\ [](\A w \in Workers :
            /\ Len(workers[w].batch) <= batchSize
            /\ workers[w].pc = "select" => Len(workers[w].batch) < batchSize)
    /\ \A w \in Workers :
          (workers[w].batch # << >>) ~> (workers[w].batch = << >>)

\* a worker holds a job while no job is queued and the producer is held up
\* at a full progress channel
C21_Witness ==
    /\ \E w \in Workers :
          /\ workers[w].pc = "select"
          /\ workers[w].batch # << >>
    /\ jobs.buf = << >>
    /\ ~ jobs.closed
    /\ ~ ctxDone
    /\ producer.pc = "sendProgress"
    /\ Len(progressChan.buf) = ProgressCap


\* C22: StreamParsePGN never has more than its numWorkers parse tasks
\* running, whatever the stream holds and however long the games stay in
\* the game channel.
C22_AtMostNumWorkersTasks == Cardinality(tasks) <= parserWorkers

\* every slot is taken by a task that still has a game to send, and the
\* dispatcher holds the next text
C22_Witness ==
    /\ Cardinality(tasks) = parserWorkers
    /\ \A t \in tasks : t.out # << >>
    /\ dispatcher.pc = "acquire"


\* the first game record of a text that parseGame accepts, NULL for none
FirstGameOf(pgnText) ==
    IF \E k \in DOMAIN pgnText : pgnKinds[pgnText[k]] # "missingFields"
    THEN pgnText[CHOOSE k \in DOMAIN pgnText :
                   /\ pgnKinds[pgnText[k]] # "missingFields"
                   /\ \A j \in 1..(k - 1) :
                        pgnKinds[pgnText[j]] = "missingFields"]
    ELSE NULL

\* C23: a call of ParsePGNBatch on N texts returns; no index ever gets
\* more than one result; at the return every index got one, both slices
\* have length N, games[i] is the first game parsed from pgnTexts[i] or
\* nil and errors[i] is nil, whatever the number of workers and the order
\* of their steps.
C23_BatchResultPerIndex ==
    /\ <>(parseBatch.pc = "returned")
    /\ [](\A i \in DOMAIN parseBatch.made : parseBatch.made[i] <= 1)
    /\ [](parseBatch.pc = "returned" =>
            /\ Len(parseBatch.games) = Len(parseBatch.pgnTexts)
            /\ Len(parseBatch.errors) = Len(parseBatch.pgnTexts)
            /\ \A i \in DOMAIN parseBatch.pgnTexts :
                  /\ parseBatch.made[i] = 1
                  /\ parseBatch.games[i] = FirstGameOf(parseBatch.pgnTexts[i])
                  /\ parseBatch.errors[i] = NULL)

\* a call with two workers on two texts that each hold a game returned
C23_Witness ==
    /\ parseBatch.pc = "returned"
    /\ parseBatch.numWorkers = 2
    /\ Len(parseBatch.pgnTexts) = 2
    /\ parseBatch.games[1] # NULL
    /\ parseBatch.games[2] # NULL
    /\ parseBatch.games[1] # parseBatch.games[2]


\* C24: no goroutine of the import sends on a closed channel (the send
\* panics), and the progress channel is closed only after the producer
\* has made its last progress send.
C24_NoSendAfterClose ==
    /\ producer.pc # "panicked"
    /\ progressChan.closed => producer.pc = "done"


\* the import of the long upload, every goroutine scheduled again and
\* again and the reader of progressChan reading on
CancelInit ==
    /\ StoreInit
    /\ CodecIdle
    /\ GoInit
    /\ LongUpload

CancelSpec ==
    CancelInit /\ [][ImportNext]_vars /\ ImportFairness
      /\ WF_vars(ConsumeProgress)

\* C25: after a cancel the producer and every worker of the import end
\* (a panic of the process ends them too); none stays blocked on a channel.
C25_CancelEndsEveryGoroutine ==
    ctxDone ~> ( /\ producer.pc \in { "done", "panicked" }
                 /\ \/ WorkersDone
                    \/ producer.pc = "panicked" )

\* no Begin() and no Commit() of the import fails: no worker has an error
\* to send
NoTransactionFails == \A w \in Workers : workers[w].pc # "sendErr"

\* the games of the stream: those the producer took and those still in it
StreamLength == streamed + Len(gameChannel.buf)

\* C26: when the import is never cancelled, no transaction fails and
\* progressChan keeps being read, ImportWithChannels returns nil, and when
\* it returns importStats + failedStats is the number of games streamed.
C26_UncancelledImportCountsEveryGame ==
    ( []( ~ ctxDone ) /\ []NoTransactionFails )
      => <>( /\ caller.pc = "returned"
             /\ ~ caller.lastErr
             /\ gameChannel.buf = << >>
             /\ streamed = batchSize + 1
             /\ importStats + failedStats = streamed )

\* an import nobody cancelled returned nil: a full batch and the rest of
\* the stream were flushed, one of the games counted failed
C26_Witness ==
    /\ caller.pc = "returned"
    /\ ~ caller.lastErr
    /\ ~ ctxDone
    /\ streamed = batchSize + 1
    /\ failedStats = 1
    /\ importStats = batchSize

RequirementsOfRank(targetFen, rank) ==
    ParseRank(split(BoardOf(targetFen), "/")[rank + 1], rank, 1, 0)

\* C28: every constraint emitted while scanning the rank at index r has a
\* square in (7 - r) * 8 .. (7 - r) * 8 + 7, whatever the pattern, a rank
\* that covers more than 8 squares included.
C28_ConstraintSquareInItsRank ==
    ( compilation.done /\ ~ compilation.result.threw ) =>
       \A rank \in 0..7 :
          \A req \in Range(RequirementsOfRank(compilation.fen, rank)) :
             /\ req \in Range(compilation.result.requirements)
             /\ req.square >= (7 - rank) * 8
             /\ req.square <= (7 - rank) * 8 + 7

\* C29: a game the importer counts failed has no row in the store.  In the
\* step in which a batch commits, the games that get a row are no more than
\* the games counted imported in it, and no row is that of a game whose
\* insertGameInTx failed part-way.
C29_FailedGameLeavesNoRow ==
    [][ /\ Cardinality(GamesAdded) <= importStats' - importStats
        /\ \A r \in dbRows' \ dbRows : r.complete ]_vars

\* C30: the imported, failed and total_processed values a job reports count
\* the games of that job only: they are what the counters gained since the
\* job was started, also for a job started after another job on the same
\* BatchHandler.
C30_ReportCountsOwnGamesOnly ==
    caller.pc = "ended" =>
       /\ report.Imported = importStats - report.startImported
       /\ report.Failed = failedStats - report.startFailed
       /\ report.TotalProcessed = report.Imported + report.Failed

====
